---- MODULE Spec2Model ----
(***************************************************************************)
(* The ingestion pipeline of the drive image searcher as a state machine:  *)
(* the store (folder and image rows), the two queues, the folder worker,   *)
(* the image worker (processImage, updateFolderProgress), the ingest,      *)
(* sync, retry and search endpoints, the periodic recovery of pending      *)
(* images, the recover-jobs and retry-folder scripts and worker restarts.  *)
(*                                                                         *)
(* Granularity: one action is the code a handler runs between two awaits   *)
(* together with the store or queue call it then awaits, so every store    *)
(* write of the source is the effect of exactly one action and the calls   *)
(* of different handlers interleave freely.  Merged into one step are:     *)
(* the reads at the start of a request (folder row, drive listing, local   *)
(* file ids); the two parallel counts of updateFolderProgress and of the   *)
(* folder job; the queueImageBatch calls of one loop; and the settling of  *)
(* a batch job, which is taken once every member has returned or thrown.   *)
(*                                                                         *)
(* One drive folder is modelled; every image row belongs to it, so the     *)
(* folderId filter of the queries is left implicit.  The endpoints serve   *)
(* one request at a time and one maintenance script runs at a time.  The   *)
(* reads of a search request are one step.  Time is not modelled in the   *)
(* pipeline: where the code asks for rows or jobs older than five minutes, *)
(* any of them may be that old.  The RateLimiter is modelled on its own,   *)
(* with a discrete clock.  Strings that the code parses or compares (file  *)
(* names, queries) are sequences of characters; a folder URL is its parsed *)
(* form.  Every specification below explores the mechanisms one group of   *)
(* properties is about, from its own initial states.                       *)
(***************************************************************************)
EXTENDS Integers, Sequences, FiniteSets, TLC

\* ------------------------------------------------------------------ bounds
\* Captioning/download/embedding calls that fail (Spec, SpecRetry).
MaxFailures == 2
\* Passes of the periodic pending-image recovery that find images
\* (SpecRecovery, SpecStalled, SpecFresh).
MaxRecoveries == 1
\* Requests to the ingest and sync endpoints (SpecSync).
MaxRequests == 3
\* Changes of the drive content, a file added or removed (SpecSync, SpecMime).
MaxDriveChanges == 2
\* Jobs the worker process takes from the queues (SpecSync); the jobs added
\* beyond that stay waiting, as they do while no worker runs.
MaxStarts == 2
\* Requests to the retry endpoint (SpecRetry).
MaxRetries == 1
\* Runs of a maintenance script, recover-jobs or retry-folder (SpecScripts,
\* SpecStalled).
MaxScripts == 1
\* Restarts of the worker process (SpecStalled).
MaxRestarts == 1
\* The RateLimiter instance checked: maxRequests per windowMs time units, up
\* to the time MaxTime (SpecLimiter).
maxRequests == 1
windowMs == 2
MaxTime == 4
\* Images in the drive folder, from one to more than two batches (SpecBatch).
MaxFilesInFolder == 11
\* The minutes of the clock of the queue (SpecTimed).
MaxClock == 8
\* Requests to the search endpoint (SpecSearch).
MaxSearches == 2
\* MAX_IMAGES_PER_FOLDER of a deployment that caps its folders (SpecCap).
CappedAt == 1
\* Deployments with another MAX_IMAGES_PER_FOLDER (SpecCap).
MaxReconfigs == 1

\* ------------------------------------------------------- program constants
batchSize == 5
attempts == 3
concurrency == 5
\* MAX_IMAGES_PER_FOLDER as parsed by getMaxImagesLimit: 0 stands for null
\* (unset, not a number, or <= 0), which disables the cap.
MaxImagesPerFolder == 0

\* The configuration: the cap and whether the database has the pgvector
\* extension.
\* A folder URL as new URL(folderUrl) reads it: its hostname, the segments of
\* its pathname and its id query parameter ("" when it has none).
Url(hostname, pathname, id) ==
    [hostname |-> hostname, pathname |-> pathname, id |-> id]

\* https://drive.google.com/drive/folders/FA
FolderUrl == Url("drive.google.com", <<"drive", "folders", "FA">>, "")

\* The folder URLs that clients submit: FolderUrl and
\* https://drive.google.com/drive/u/0/folders/FA,
\* https://drive.google.com/open?id=FA,
\* https://drive.google.com/file/d/FA/view,
\* https://drive.google.com/x/folders/FA,
\* https://evil.example.com/drive/folders/FA,
\* https://docs.google.com/open?id=FA.
Urls ==
    { FolderUrl,
      Url("drive.google.com", <<"drive", "u", "0", "folders", "FA">>, ""),
      Url("drive.google.com", <<"open">>, "FA"),
      Url("drive.google.com", <<"file", "d", "FA", "view">>, ""),
      Url("drive.google.com", <<"x", "folders", "FA">>, ""),
      Url("evil.example.com", <<"drive", "folders", "FA">>, ""),
      Url("docs.google.com", <<"open">>, "FA") }

null == "null"

\* match(/\/folders\/([a-zA-Z0-9-_]+)/): the segment that follows the first
\* segment "folders" (segments are made of the characters of the class).
FoldersMatch(pathname) ==
    IF \E i \in 1..(Len(pathname) - 1) : pathname[i] = "folders"
    THEN pathname[1 + CHOOSE i \in 1..(Len(pathname) - 1) :
                        /\ pathname[i] = "folders"
                        /\ \A k \in 1..(i - 1) : pathname[k] # "folders"]
    ELSE null

\* pathname.includes("/folders/")
IncludesFolders(pathname) ==
    \E i \in 1..(Len(pathname) - 1) : pathname[i] = "folders"

\* extractFolderId of lib/drive.
extractFolderId(folderUrl) ==
    IF IncludesFolders(folderUrl.pathname) THEN FoldersMatch(folderUrl.pathname)
    ELSE IF folderUrl.id # "" THEN folderUrl.id
    ELSE null

\* isValidDriveUrl of lib/drive.
isValidDriveUrl(url) ==
    /\ url.hostname = "drive.google.com"
    /\ IncludesFolders(url.pathname) \/ url.id # ""

\* folderUrl.match(/\/folders\/([a-zA-Z0-9-_]+)/) of the ingest endpoint, on
\* the whole URL: its host and its query hold no "/folders/".
folderIdMatch(folderUrl) == FoldersMatch(folderUrl.pathname)

\* No OAuth token: token || undefined of a user without a Google connection.
undefined == "undefined"

\* `elsewhere`: the drive files that have an image row in another folder
\* (images.fileId is unique over all folders).
Uncapped == [maxImagesLimit |-> MaxImagesPerFolder, pgvector |-> TRUE,
             folderUrl |-> FolderUrl, accessToken |-> undefined,
             elsewhere |-> {}]

\* The drive folder that is ingested and the files that can be in it, with
\* the MIME type the drive reports for each.
DriveFolder == "FA"
Files == {1, 2, 3}
\* The same files and one for which the drive reports no MIME type.
FilesAndUntyped == Files \cup {4}
MimeOf(f) == CASE f = 1 -> "image/jpeg"
               [] f = 2 -> "image/png"
               [] f = 3 -> "image/heic"
               [] f > 4 -> "image/jpeg"
               [] OTHER -> ""

supportedMimeTypes ==
    {"image/jpeg", "image/png", "image/gif", "image/webp", "image/bmp", "image/svg+xml"}

VARIABLES
    drive,          \* the files currently in the drive folder
    folders,        \* folder rows, keyed by drive folder id
    images,         \* image rows, keyed by drive file id (unique)
    nextId,         \* source of fresh internal row ids
    jobs,           \* every job ever added to the two queues, in order
    folderProgress, \* the in-memory progress map of the worker process
    api,            \* the HTTP request being served
    rec,            \* the recoverPendingImages pass
    ghost,          \* history: the first ingest and the drive changes since
    env,            \* the configuration of the deployment, and the folder URL
                    \* and OAuth token of the client's requests
    script,         \* the maintenance script being run from the command line
    limiter,        \* a RateLimiter instance, its callers and the clock
    download,       \* a call of downloadWithRetry and what it has done
    dbInit,         \* the module state of db-init and its callers
    clock,          \* Date.now() of the queue, in minutes
    budget          \* what is left of the bounds

vars == <<drive, folders, images, nextId, jobs, folderProgress, api, rec,
          ghost, env, script, limiter, download, dbInit, clock, budget>>

\* ------------------------------------------------------------------ helpers
EmptyFn == [x \in {} |-> 0]

Min(a, b) == IF a < b THEN a ELSE b

RECURSIVE SortedSeq(_)
SortedSeq(S) ==
    IF S = {} THEN <<>>
    ELSE LET m == CHOOSE x \in S : \A y \in S : x <= y
         IN <<m>> \o SortedSeq(S \ {m})

\* images.slice(i, i + batchSize) for i = 0, batchSize, ...: the image sets
\* of the batches, in order.
\* A partition into one batch.
BatchesUnsplit(S) == IF S = {} THEN <<>> ELSE <<S>>

Batches(S) ==
    LET s == SortedSeq(S)
        n == Len(s)
        k == (n + batchSize - 1) \div batchSize
    IN [b \in 1..k |->
          {s[i] : i \in ((b - 1) * batchSize + 1)..Min(b * batchSize, n)}]

\* A listing that returns every file of the folder.
listImagesUnfiltered == drive

\* drive.files.list restricted to the supported types (listImagesRecursively).
listImagesRecursively == {f \in drive : MimeOf(f) \in supportedMimeTypes}

FolderExists == DriveFolder \in DOMAIN folders
Folder == folders[DriveFolder]

RowExists(f, id) == f \in DOMAIN images /\ images[f].id = id
WithStatus(st) == {f \in DOMAIN images : images[f].status = st}
CountAll == Cardinality(DOMAIN images)
CountCompleted == Cardinality(WithStatus("completed"))

\* prisma.folder.update({ data }) on the one folder row.
FolderUpdate(data) ==
    [folders EXCEPT ![DriveFolder] =
        [k \in DOMAIN @ |-> IF k \in DOMAIN data THEN data[k] ELSE @[k]]]

\* An update of the image row with internal id `id` (no row: unchanged).
ImageUpdate(f, id, data) ==
    IF RowExists(f, id)
    THEN [images EXCEPT ![f] =
            [k \in DOMAIN @ |-> IF k \in DOMAIN data THEN data[k] ELSE @[k]]]
    ELSE images

\* A new row in status pending, as both createMany calls write it.
NewRow(f, id) ==
    [id |-> id, status |-> "pending", mimeType |-> MimeOf(f),
     caption |-> FALSE, tags |-> FALSE, captionVec |-> FALSE, error |-> null]

\* createMany for the files of S: fresh ids in file order.
CreateMany(S) ==
    LET s == SortedSeq(S)
    IN [f \in DOMAIN images \cup S |->
          IF f \in S
          THEN NewRow(f, nextId + (CHOOSE i \in 1..Len(s) : s[i] = f) - 1)
          ELSE images[f]]

\* ------------------------------------------------------------------- queues
\* `calls` is history: the limiter and the services that the execution of
\* processImage has called.
NoExec == [pc |-> "none", cntTotal |-> 0, cntCompleted |-> 0, calls |-> {}]

\* A job as added to a queue. `members` maps the drive file id of each image
\* of the job to its internal row id; `mem` is the state of each member's
\* processImage execution while the job is active.
NewJob(queue, name, members) ==
    [queue |-> queue, name |-> name, state |-> "waiting", attemptsMade |-> 0,
     members |-> members, accessToken |-> undefined,
     processedOn |-> 0, failedReason |-> "", pc |-> "none",
     found |-> EmptyFn,
     cntTotal |-> 0, cntCompleted |-> 0,
     mem |-> [f \in DOMAIN members |-> NoExec],
     returned |-> [processed |-> 0, failed |-> 0]]

IdsOf(S) == [f \in S |-> images[f].id]

\* queueFolderProcessing
queueFolderProcessingAs(q, accessToken) ==
    Append(q, [NewJob("folders", "process", EmptyFn) EXCEPT
                  !.accessToken = accessToken])

\* The same without the optional accessToken.
queueFolderProcessing(q) == queueFolderProcessingAs(q, undefined)

\* queueImageBatch for every batch of the images `found` (file -> row id).
RECURSIVE QueueBatches(_, _, _, _)
QueueBatches(q, found, bs, accessToken) ==
    IF bs = <<>> THEN q
    ELSE QueueBatches(
           Append(q, [NewJob("images", "batch-caption",
                             [f \in Head(bs) |-> found[f]]) EXCEPT
                         !.accessToken = accessToken]),
           found, Tail(bs), accessToken)

queueImageBatchesAs(q, found, accessToken) ==
    LET b == Batches(DOMAIN found)
    IN QueueBatches(q, found, [i \in 1..Len(b) |-> b[i]], accessToken)

\* The same with accessToken: undefined.
queueImageBatches(q, found) == queueImageBatchesAs(q, found, undefined)

Active(queue) == {j \in DOMAIN jobs : jobs[j].queue = queue /\ jobs[j].state = "active"}

\* --------------------------------------------------------------------- Init
NoFolderProgress == [present |-> FALSE, totalImages |-> 0, processedImages |-> 0]

NoFields == [status |-> "none", totalImages |-> 0, processedImages |-> 0]

\* No search has been answered by the last request.
NoSearch == [query |-> <<>>, status |-> "none", searchType |-> "none",
             submitted |-> <<>>, results |-> {}, topK |-> 0, maxResults |-> 0]

Idle == [op |-> "idle", pc |-> "none", fresh |-> FALSE, existingStatus |-> "none",
         existing |-> {}, new |-> {}, deleted |-> {},
         newImagesAdded |-> 0, deletedImagesRemoved |-> 0,
         updatedProcessedImages |-> 0, completedAtCount |-> {},
         clean |-> FALSE, upToDate |-> FALSE, before |-> NoFields, wrote |-> NoFields,
         listed |-> {}, last |-> "none",
         image |-> EmptyFn, failedImages |-> EmptyFn, pendingImages |-> EmptyFn,
         retryable |-> EmptyFn, search |-> NoSearch]

NoSnapshot == [ids |-> {}, totalImages |-> 0, processedImages |-> 0, completed |-> {}]

\* clean: no drive change since the listing of the first ingest; firstId: the
\* folder id the first ingest returned; phase, x, pre: the progress of a
\* round trip (x added on the drive, sync, x removed, sync) and the folder
\* before it.
NoGhost == [clean |-> FALSE, firstId |-> 0,
            phase |-> "none", x |-> 0, pre |-> NoSnapshot]

\* `skipped` is history: the status of the folder that the last pass left
\* out although it had pending images.
RecIdle == [pc |-> "idle", found |-> EmptyFn, skipped |-> "none"]

\* The callers of the limiter.
Callers == {1, 2, 3}

\* A caller that has not called waitIfNeeded.
NotCalled == [pc |-> "idle", now |-> 0, wakeAt |-> 0]

\* A new RateLimiter at time 0: no request recorded.  `released` is history:
\* the times at which waitIfNeeded returned to a caller.
NewLimiter == [now |-> 0, requests |-> <<>>,
               callers |-> [c \in Callers |-> NotCalled], released |-> <<>>]

\* downloadWithRetry has not been called.  `log` is history: the limiter
\* acquires, the fetches and the delays of the call, in order.
NoDownload == [pc |-> "idle", attempt |-> 0, log |-> <<>>, result |-> "none"]

\* The module state of db-init when the process starts, with no caller yet.
\* `queries` is history: the statements sent to the database, in order.
NoError == [name |-> "", message |-> ""]
NewDbInit == [pgvectorReady |-> null, error |-> NoError,
              pgvectorCheckDone |-> FALSE, pgvectorAvailable |-> FALSE,
              pc |-> "none", callers |-> EmptyFn, queries |-> <<>>]

\* No script is running.
NoScript == [op |-> "none", pc |-> "none", stuck |-> EmptyFn,
             listed |-> FALSE, processedImages |-> 0, completedCount |-> 0,
             recoveredCount |-> 0]

\* The state after deployment: empty store and queues, the drive folder
\* holding one of the file sets `drives`, and the bounds `b` still unused.
InitEnv(envs, drives, b) ==
    /\ env \in envs
    /\ script = NoScript
    /\ limiter = NewLimiter
    /\ download = NoDownload
    /\ dbInit = NewDbInit
    /\ clock = 1
    /\ drive \in drives
    /\ folders = EmptyFn
    /\ images = EmptyFn
    /\ nextId = 1
    /\ jobs = <<>>
    /\ folderProgress = NoFolderProgress
    /\ api = Idle
    /\ rec = RecIdle
    /\ ghost = NoGhost
    /\ budget = b

\* The same with MAX_IMAGES_PER_FOLDER unset.
InitWith(drives, b) == InitEnv({Uncapped}, drives, b)

\* ------------------------------------------------------------------ drive
\* The folder is synced: no request is being served, the rows are the
\* supported files of the drive and the counters agree with the rows.
Synced ==
    /\ api.op = "idle"
    /\ FolderExists
    /\ DOMAIN images = listImagesRecursively
    /\ Folder.totalImages = CountAll
    /\ Folder.processedImages = CountCompleted

Snapshot ==
    [ids |-> DOMAIN images, totalImages |-> Folder.totalImages,
     processedImages |-> Folder.processedImages, completed |-> WithStatus("completed")]

\* A file appears in the drive folder.
DriveAdd(f) ==
    /\ f \notin drive
    /\ budget.drive > 0
    /\ drive' = drive \cup {f}
    /\ budget' = [budget EXCEPT !.drive = @ - 1]
    /\ ghost' = IF Synced
                THEN [ghost EXCEPT !.clean = FALSE, !.phase = "added", !.x = f,
                                   !.pre = Snapshot]
                ELSE [ghost EXCEPT !.clean = FALSE, !.phase = "none", !.x = 0,
                                   !.pre = NoSnapshot]
    /\ UNCHANGED <<download, dbInit, clock, limiter, env, script, folders, images, nextId, jobs, folderProgress, api, rec>>

\* A file disappears from the drive folder.
DriveRemove(f) ==
    /\ f \in drive
    /\ budget.drive > 0
    /\ drive' = drive \ {f}
    /\ budget' = [budget EXCEPT !.drive = @ - 1]
    /\ ghost' = IF ghost.phase = "synced1" /\ ghost.x = f /\ api.op = "idle"
                THEN [ghost EXCEPT !.clean = FALSE, !.phase = "removed"]
                ELSE [ghost EXCEPT !.clean = FALSE, !.phase = "none", !.x = 0,
                                   !.pre = NoSnapshot]
    /\ UNCHANGED <<download, dbInit, clock, limiter, env, script, folders, images, nextId, jobs, folderProgress, api, rec>>

\* ---------------------------------------------------------- ingest and sync
\* getMaxImagesLimit() && n > limit
\* A check that never fires.
CapExceededNever(n) == FALSE

\* maxImagesLimit && n > maxImagesLimit
CapExceeded(n) == env.maxImagesLimit # 0 /\ n > env.maxImagesLimit

\* A total that forgets the new images.
totalAfterSyncNoNew(existing, deleted, new) ==
    Cardinality(existing) - Cardinality(deleted)

\* existingImages.length - deletedFileIds.length + newImages.length
totalAfterSync(existing, deleted, new) ==
    Cardinality(existing) - Cardinality(deleted) + Cardinality(new)

\* The service is deployed again with another MAX_IMAGES_PER_FOLDER, which
\* getMaxImagesLimit reads from the environment at every request.
Reconfigure(limit) ==
    /\ budget.reconfigs > 0
    /\ limit # env.maxImagesLimit
    /\ budget' = [budget EXCEPT !.reconfigs = @ - 1]
    /\ env' = [env EXCEPT !.maxImagesLimit = limit]
    /\ UNCHANGED <<download, dbInit, clock, limiter, script, drive, folders, images, nextId, jobs, folderProgress, api,
                   rec, ghost>>

\* The drive ids a sync compares with the rows: the ingest endpoint filters
\* the listing by MIME type once more, the sync endpoint takes it as listed.
driveFileIds(op, listing) ==
    IF op = "ingest" THEN {f \in listing : MimeOf(f) \in supportedMimeTypes} ELSE listing

\* A diff that takes every listed file for new.
newImagesAll(op, listing, existing) == driveFileIds(op, listing)

\* New = in the drive but not in the store.
newImages(op, listing, existing) == driveFileIds(op, listing) \ existing

\* A diff that never finds a deleted file.
deletedFileIdsNone(op, listing, existing) == {}

\* Deleted = in the store but not in the drive.
deletedFileIds(op, listing, existing) == existing \ driveFileIds(op, listing)

\* The first write of a sync after its reads.
AfterReads(new, deleted) ==
    IF new # {} THEN "create" ELSE IF deleted # {} THEN "delete" ELSE "count"

GhostAtBegin ==
    CASE ghost.phase = "added" -> [ghost EXCEPT !.phase = "sync1"]
      [] ghost.phase = "removed" -> [ghost EXCEPT !.phase = "sync2"]
      [] OTHER -> ghost

\* The reads of a sync: the folder row, the drive listing and the local
\* file ids; then the cap check.
BeginSync(op) ==
    LET listing == listImagesRecursively
        existing == DOMAIN images
        new == newImages(op, listing, existing)
        deleted == deletedFileIds(op, listing, existing)
    IN IF new # {} /\ CapExceeded(totalAfterSync(existing, deleted, new))
       THEN /\ api' = [Idle EXCEPT !.last = "FolderCapExceeded", !.listed = drive]
            /\ UNCHANGED ghost
       ELSE /\ api' = [Idle EXCEPT !.op = op, !.pc = AfterReads(new, deleted),
                                   !.listed = drive,
                                   !.existingStatus = Folder.status,
                                   !.existing = existing, !.new = new,
                                   !.deleted = deleted, !.clean = ghost.clean,
                                   !.upToDate = (driveFileIds(op, listing) = existing)]
            /\ ghost' = GhostAtBegin

\* The listing and the checks of an ingest of a folder that has no row.
BeginFresh ==
    LET result == listImagesRecursively
        supportedImages == {f \in result : MimeOf(f) \in supportedMimeTypes}
    IN IF CapExceeded(Cardinality(supportedImages)) \/ Cardinality(result) = 0
       THEN /\ api' = [Idle EXCEPT !.listed = drive,
                                   !.last =
                          IF CapExceeded(Cardinality(supportedImages))
                          THEN "FolderCapExceeded" ELSE "EmptyFolder"]
            /\ UNCHANGED ghost
       ELSE /\ api' = [Idle EXCEPT !.op = "ingest", !.fresh = TRUE,
                                   !.listed = drive,
                                   !.pc = "createFolder", !.new = supportedImages]
            /\ ghost' = [NoGhost EXCEPT !.clean = TRUE]

\* POST /api/ingest up to its first store write.
IngestBegin ==
    /\ api.op = "idle"
    /\ budget.requests > 0
    /\ budget' = [budget EXCEPT !.requests = @ - 1]
    /\ IF folderIdMatch(env.folderUrl) = null
       THEN /\ api' = [Idle EXCEPT !.last = "InvalidUrl"]
            /\ UNCHANGED ghost
       ELSE IF FolderExists THEN BeginSync("ingest") ELSE BeginFresh
    /\ UNCHANGED <<download, dbInit, clock, limiter, env, script, drive, folders, images, nextId, jobs, folderProgress, rec>>

\* POST /api/sync up to its first store write (the folder is found).
SyncBegin ==
    /\ api.op = "idle"
    /\ budget.requests > 0
    /\ FolderExists
    /\ budget' = [budget EXCEPT !.requests = @ - 1]
    /\ BeginSync("sync")
    /\ UNCHANGED <<download, dbInit, clock, limiter, env, script, drive, folders, images, nextId, jobs, folderProgress, rec>>

\* prisma.folder.create of a fresh ingest.
IngestCreateFolder ==
    /\ api.pc = "createFolder"
    /\ folders' = (DriveFolder :> [id |-> nextId, status |-> "pending",
                                   totalImages |-> Cardinality(api.new),
                                   processedImages |-> 0])
    /\ nextId' = nextId + 1
    /\ api' = [api EXCEPT !.pc = "createImages"]
    /\ UNCHANGED <<download, dbInit, clock, limiter, env, script, drive, images, jobs, folderProgress, rec, ghost, budget>>

\* prisma.image.createMany of a fresh ingest.  It throws when a fileId has a
\* row already (images_fileId_key); the catch block answers 500.
IngestCreateImages ==
    /\ api.pc = "createImages"
    /\ IF api.new \cap env.elsewhere # {}
       THEN /\ api' = [Idle EXCEPT !.last = "InternalServerError"]
            /\ UNCHANGED <<images, nextId>>
       ELSE /\ images' = CreateMany(api.new)
            /\ nextId' = nextId + Cardinality(api.new)
            /\ api' = [api EXCEPT !.pc = "enqueue"]
    /\ UNCHANGED <<download, dbInit, clock, limiter, env, script, drive, folders, jobs,
                   folderProgress, rec, ghost, budget>>

\* queueFolderProcessing of a fresh ingest throws (the queue cannot be
\* reached); the catch block answers 500.
IngestEnqueueFails ==
    /\ api.pc = "enqueue"
    /\ budget.failures > 0
    /\ budget' = [budget EXCEPT !.failures = @ - 1]
    /\ api' = [Idle EXCEPT !.last = "InternalServerError"]
    /\ UNCHANGED <<download, dbInit, clock, limiter, env, script, drive, folders, images,
                   nextId, jobs, folderProgress, rec, ghost>>

\* queueFolderProcessing and the response of a fresh ingest.
IngestEnqueue ==
    /\ api.pc = "enqueue"
    /\ jobs' = queueFolderProcessingAs(jobs, env.accessToken)
    /\ ghost' = [ghost EXCEPT !.firstId = Folder.id]
    /\ api' = [Idle EXCEPT !.last = "ok"]
    /\ UNCHANGED <<download, dbInit, clock, limiter, env, script, drive, folders, images, nextId, folderProgress, rec, budget>>

\* prisma.image.createMany of a sync: the new images, pending.
SyncCreate ==
    /\ api.pc = "create"
    /\ images' = CreateMany(api.new)
    /\ nextId' = nextId + Cardinality(api.new)
    /\ api' = [api EXCEPT !.newImagesAdded = Cardinality(api.new),
                          !.pc = IF api.deleted # {} THEN "delete" ELSE "count"]
    /\ UNCHANGED <<download, dbInit, clock, limiter, env, script, drive, folders, jobs, folderProgress, rec, ghost, budget>>

\* prisma.image.deleteMany of a sync: the rows of the deleted files.
SyncDelete ==
    /\ api.pc = "delete"
    /\ images' = [f \in DOMAIN images \ api.deleted |-> images[f]]
    /\ api' = [api EXCEPT !.deletedImagesRemoved = Cardinality(api.deleted),
                          !.pc = "count"]
    /\ UNCHANGED <<download, dbInit, clock, limiter, env, script, drive, folders, nextId, jobs, folderProgress, rec, ghost, budget>>

\* prisma.image.count({ status: "completed" }) of a sync.
SyncCount ==
    /\ api.pc = "count"
    /\ api' = [api EXCEPT !.updatedProcessedImages = CountCompleted,
                          !.completedAtCount = WithStatus("completed"),
                          !.pc = "update"]
    /\ UNCHANGED <<download, dbInit, clock, limiter, env, script, drive, folders, images, nextId, jobs, folderProgress, rec,
                   ghost, budget>>

\* A total that forgets the rows already there.
updatedTotalImagesNew(a) == a.newImagesAdded

updatedTotalImages(a) ==
    Cardinality(a.existing) - a.deletedImagesRemoved + a.newImagesAdded

newStatus(a) ==
    IF a.newImagesAdded > 0 THEN "processing"
    ELSE IF a.updatedProcessedImages = updatedTotalImages(a) /\ updatedTotalImages(a) > 0
         THEN "completed"
         ELSE a.existingStatus

\* prisma.folder.update of a sync: totals and status.
SyncUpdate ==
    /\ api.pc = "update"
    /\ LET data == [totalImages |-> updatedTotalImages(api),
                    processedImages |-> api.updatedProcessedImages,
                    status |-> newStatus(api)]
       IN /\ folders' = FolderUpdate(data)
          /\ api' = [api EXCEPT !.pc = "respond", !.wrote = data,
                                !.before = [k \in DOMAIN data |-> Folder[k]]]
    /\ UNCHANGED <<download, dbInit, clock, limiter, env, script, drive, images, nextId, jobs, folderProgress, rec, ghost, budget>>

\* Whether a sync ends by queueing a folder job.
requeues(a) ==
    \/ a.newImagesAdded > 0
    \/ a.op = "ingest" /\ a.existingStatus \in {"failed", "pending"}

\* The queueFolderProcessing call, if any, and the response of a sync.
SyncRespond ==
    /\ api.pc = "respond"
    /\ jobs' = IF requeues(api)
               THEN queueFolderProcessingAs(
                      jobs, IF api.op = "ingest" THEN env.accessToken ELSE undefined)
               ELSE jobs
    /\ ghost' = CASE ghost.phase = "sync1" -> [ghost EXCEPT !.phase = "synced1"]
                  [] ghost.phase = "sync2" ->
                       [ghost EXCEPT !.phase = "none", !.x = 0, !.pre = NoSnapshot]
                  [] OTHER -> ghost
    /\ api' = [Idle EXCEPT !.last = "ok"]
    /\ UNCHANGED <<download, dbInit, clock, limiter, env, script, drive, folders, images, nextId, folderProgress, rec, budget>>

\* ------------------------------------------------------------ folder worker
\* The worker takes a waiting folder job.
FolderJobStart(j) ==
    /\ jobs[j].queue = "folders"
    /\ jobs[j].state = "waiting"
    /\ Cardinality(Active("folders")) < concurrency
    /\ budget.starts > 0
    /\ budget' = [budget EXCEPT !.starts = @ - 1]
    /\ jobs' = [jobs EXCEPT ![j].state = "active", ![j].attemptsMade = @ + 1,
                            ![j].processedOn = clock,
                            ![j].pc = "setProcessing"]
    /\ UNCHANGED <<download, dbInit, clock, limiter, env, script, drive, folders, images, nextId, folderProgress, api, rec,
                   ghost>>

\* prisma.folder.update({ status: "processing" })
FolderSetProcessing(j) ==
    /\ jobs[j].state = "active"
    /\ jobs[j].pc = "setProcessing"
    /\ folders' = FolderUpdate([status |-> "processing"])
    /\ jobs' = [jobs EXCEPT ![j].pc = "findPending"]
    /\ UNCHANGED <<download, dbInit, clock, limiter, env, script, drive, images, nextId, folderProgress, api, rec, ghost, budget>>

\* prisma.image.findMany({ status: "pending" })
FolderFindPending(j) ==
    /\ jobs[j].state = "active"
    /\ jobs[j].pc = "findPending"
    /\ jobs' = [jobs EXCEPT ![j].found = IdsOf(WithStatus("pending")),
                            ![j].pc = "queueBatches"]
    /\ UNCHANGED <<download, dbInit, clock, limiter, env, script, drive, folders, images, nextId, folderProgress, api, rec,
                   ghost, budget>>

\* folderProgress.set(...) and one queueImageBatch per batch of five.
FolderQueueBatches(j) ==
    /\ jobs[j].state = "active"
    /\ jobs[j].pc = "queueBatches"
    /\ folderProgress' = [present |-> TRUE,
                          totalImages |-> Cardinality(DOMAIN jobs[j].found),
                          processedImages |-> 0]
    /\ jobs' = queueImageBatchesAs([jobs EXCEPT ![j].pc = "recount"], jobs[j].found,
                                   jobs[j].accessToken)
    /\ UNCHANGED <<download, dbInit, clock, limiter, env, script, drive, folders, images, nextId, api, rec, ghost, budget>>

\* The two counts at the end of the folder job.
FolderRecount(j) ==
    /\ jobs[j].state = "active"
    /\ jobs[j].pc = "recount"
    /\ jobs' = [jobs EXCEPT ![j].cntTotal = CountAll,
                            ![j].cntCompleted = CountCompleted,
                            ![j].pc = "finish"]
    /\ UNCHANGED <<download, dbInit, clock, limiter, env, script, drive, folders, images, nextId, folderProgress, api, rec,
                   ghost, budget>>

\* if (processedImages === totalImages) folder.update({ status: "completed" })
FolderFinish(j) ==
    /\ jobs[j].state = "active"
    /\ jobs[j].pc = "finish"
    /\ folders' = IF jobs[j].cntCompleted = jobs[j].cntTotal
                  THEN FolderUpdate([status |-> "completed"])
                  ELSE folders
    /\ jobs' = [jobs EXCEPT ![j].state = "completed", ![j].pc = "none",
                            ![j].found = EmptyFn,
                            ![j].cntTotal = 0, ![j].cntCompleted = 0]
    /\ UNCHANGED <<download, dbInit, clock, limiter, env, script, drive, images, nextId, folderProgress, api, rec, ghost, budget>>

\* ------------------------------------------------------------- image worker
\* The worker takes a waiting image job; every member starts processImage
\* (Promise.all over the members of a batch).
ImageJobStart(j) ==
    /\ jobs[j].queue = "images"
    /\ jobs[j].state = "waiting"
    /\ Cardinality(Active("images")) < concurrency
    /\ budget.starts > 0
    /\ budget' = [budget EXCEPT !.starts = @ - 1]
    /\ jobs' = [jobs EXCEPT ![j].state = "active", ![j].attemptsMade = @ + 1,
                            ![j].processedOn = clock,
                            ![j].mem = [f \in DOMAIN @ |-> [NoExec EXCEPT !.pc = "start"]]]
    /\ UNCHANGED <<download, dbInit, clock, limiter, env, script, drive, folders, images, nextId, folderProgress, api, rec,
                   ghost>>

At(j, f, pc) ==
    /\ jobs[j].queue = "images"
    /\ jobs[j].state = "active"
    /\ f \in DOMAIN jobs[j].mem
    /\ jobs[j].mem[f].pc = pc

\* The catch block of processImage up to its folder update: the in-memory
\* progress entry counts the failure, and when it reaches its total the
\* folder is written completed with processedImages = that total.
CatchAfter(j, f, calls) ==
    /\ IF folderProgress.present
       THEN IF folderProgress.processedImages + 1 >= folderProgress.totalImages
            THEN /\ folderProgress' = NoFolderProgress
                 /\ folders' = FolderUpdate(
                        [status |-> "completed",
                         processedImages |-> folderProgress.totalImages])
            ELSE /\ folderProgress' = [folderProgress EXCEPT !.processedImages = @ + 1]
                 /\ UNCHANGED folders
       ELSE UNCHANGED <<folders, folderProgress>>
    /\ jobs' = [jobs EXCEPT ![j].mem[f].pc = "markFailed", ![j].mem[f].calls = calls]
    /\ UNCHANGED images

\* The same for an exception thrown before any call.
Catch(j, f) == CatchAfter(j, f, {})

\* prisma.image.update({ status: "processing" }); it throws when the row is
\* gone.
SetProcessing(j, f) ==
    /\ At(j, f, "start")
    /\ IF RowExists(f, jobs[j].members[f])
       THEN /\ images' = ImageUpdate(f, jobs[j].members[f], [status |-> "processing"])
            /\ jobs' = [jobs EXCEPT ![j].mem[f].pc =
                          IF jobs[j].name = "image" THEN "details" ELSE "work"]
            /\ UNCHANGED <<folders, folderProgress>>
       ELSE Catch(j, f)
    /\ UNCHANGED <<download, dbInit, clock, limiter, env, script, drive, nextId, api, rec, ghost, budget>>

\* The job data of a single-image job carries no mimeType and name:
\* processImage reads them with prisma.image.findUnique and throws "Image not
\* found or details missing" when the row is gone.
FindDetails(j, f) ==
    /\ At(j, f, "details")
    /\ IF RowExists(f, jobs[j].members[f])
       THEN /\ jobs' = [jobs EXCEPT ![j].mem[f].pc = "work"]
            /\ UNCHANGED <<folders, folderProgress, images>>
       ELSE Catch(j, f)
    /\ UNCHANGED <<download, dbInit, clock, limiter, env, script, drive, nextId, api, rec, ghost, budget>>

\* The write of a successful member: status, caption, tags and captionVec in
\* one UPDATE (no error when no row matches).
CompletedWrite(f, id) ==
    ImageUpdate(f, id, [status |-> "completed", caption |-> TRUE, tags |-> TRUE,
                        captionVec |-> TRUE])

\* The error column of a row that the MIME check refused, and of a row whose
\* processing threw (the message of the exception).
UnsupportedMimeType == "Unsupported MIME type"
errorMessage == "Failed to caption image"

\* What processImage calls after the MIME check, in order: the limiter, then
\* captionImage, which downloads the file, then generateCaptionEmbedding.
AllCalls == {"waitIfNeeded", "captionImage", "generateCaptionEmbedding"}

\* A check that refuses nothing.
UnsupportedNever(mimeType) == FALSE

\* !supportedMimeTypes.includes(mimeType)
Unsupported(mimeType) == mimeType \notin supportedMimeTypes

\* The MIME check, then limiter, captionImage and generateCaptionEmbedding
\* all succeeding, then the UPDATE to completed, whose ::vector cast the
\* database rejects when it has no pgvector extension.
ProcessSucceeds(j, f) ==
    /\ At(j, f, "work")
    /\ IF Unsupported(MimeOf(f))
       THEN IF RowExists(f, jobs[j].members[f])
            THEN /\ images' = ImageUpdate(f, jobs[j].members[f],
                                          [status |-> "failed",
                                           error |-> UnsupportedMimeType])
                 /\ jobs' = [jobs EXCEPT ![j].mem[f].pc = "failed"]
                 /\ UNCHANGED <<folders, folderProgress>>
            ELSE Catch(j, f)
       ELSE IF env.pgvector
            THEN /\ images' = CompletedWrite(f, jobs[j].members[f])
                 /\ jobs' = [jobs EXCEPT ![j].mem[f].pc = "count",
                                         ![j].mem[f].calls = AllCalls]
                 /\ UNCHANGED <<folders, folderProgress>>
            ELSE CatchAfter(j, f, AllCalls)
    /\ UNCHANGED <<download, dbInit, clock, limiter, env, script, drive, nextId, api, rec, ghost, budget>>

\* captionImage or generateCaptionEmbedding throws.
ProcessFails(j, f) ==
    /\ At(j, f, "work")
    /\ ~Unsupported(MimeOf(f))
    /\ budget.failures > 0
    /\ budget' = [budget EXCEPT !.failures = @ - 1]
    /\ CatchAfter(j, f, {"waitIfNeeded", "captionImage"})
    /\ UNCHANGED <<download, dbInit, clock, limiter, env, script, drive, nextId, api, rec, ghost>>

\* updateFolderProgress: the two counts.
CountProgress(j, f) ==
    /\ At(j, f, "count")
    /\ jobs' = [jobs EXCEPT ![j].mem[f].cntTotal = CountAll,
                            ![j].mem[f].cntCompleted = CountCompleted,
                            ![j].mem[f].pc = "update"]
    /\ UNCHANGED <<download, dbInit, clock, limiter, env, script, drive, folders, images, nextId, folderProgress, api, rec,
                   ghost, budget>>

\* The status updateFolderProgress derives from its counts.
progressStatus(processedImages, totalImages) ==
    IF processedImages = totalImages THEN "completed" ELSE "processing"

\* updateFolderProgress: the folder update from the counts read before, and
\* the cleanup of the progress entry.
UpdateProgress(j, f) ==
    /\ At(j, f, "update")
    /\ LET m == jobs[j].mem[f]
           status == progressStatus(m.cntCompleted, m.cntTotal)
       IN /\ folders' = FolderUpdate([processedImages |-> m.cntCompleted,
                                      status |-> status])
          /\ folderProgress' = IF folderProgress.present /\ status = "completed"
                               THEN NoFolderProgress
                               ELSE folderProgress
    /\ jobs' = [jobs EXCEPT ![j].mem[f] = [NoExec EXCEPT !.pc = "ok"]]
    /\ UNCHANGED <<download, dbInit, clock, limiter, env, script, drive, images, nextId, api, rec, ghost, budget>>

\* The catch block's prisma.image.update({ status: "failed", error }); it
\* throws out of processImage when the row is gone.
MarkFailed(j, f) ==
    /\ At(j, f, "markFailed")
    /\ IF RowExists(f, jobs[j].members[f])
       THEN /\ images' = ImageUpdate(f, jobs[j].members[f],
                                     [status |-> "failed", error |-> errorMessage])
            /\ jobs' = [jobs EXCEPT ![j].mem[f].pc = "failed"]
       ELSE /\ jobs' = [jobs EXCEPT ![j].mem[f].pc = "threw"]
            /\ UNCHANGED images
    /\ UNCHANGED <<download, dbInit, clock, limiter, env, script, drive, folders, nextId, folderProgress, api, rec, ghost, budget>>

Members(j, pc) == {f \in DOMAIN jobs[j].mem : jobs[j].mem[f].pc = pc}

\* The job's processor returns or throws once every member has settled: a
\* member that threw rejects Promise.all, the job fails and the queue retries
\* it until its attempts are used up.
ImageJobFinish(j) ==
    /\ jobs[j].queue = "images"
    /\ jobs[j].state = "active"
    /\ \A f \in DOMAIN jobs[j].mem : jobs[j].mem[f].pc \in {"ok", "failed", "threw"}
    /\ jobs' = [jobs EXCEPT
                  ![j].state = IF Members(j, "threw") = {} THEN "completed"
                               ELSE IF jobs[j].attemptsMade < attempts THEN "waiting"
                               ELSE "failed",
                  ![j].returned = IF Members(j, "threw") = {}
                                  THEN [processed |-> Cardinality(Members(j, "ok")),
                                        failed |-> Cardinality(Members(j, "failed"))]
                                  ELSE @,
                  ![j].mem = [f \in DOMAIN @ |-> NoExec]]
    /\ UNCHANGED <<download, dbInit, clock, limiter, env, script, drive, folders, images, nextId, folderProgress, api, rec,
                   ghost, budget>>

\* ----------------------------------------------- recovery of pending images
\* recoverPendingImages: the folders in status processing or pending that
\* have pending images, with those images (one query).  A pass that finds
\* nothing changes nothing; the passes that find images are bounded.
RecoverBegin ==
    /\ rec.pc = "idle"
    /\ budget.recoveries > 0
    /\ IF /\ FolderExists
          /\ Folder.status \in {"processing", "pending"}
          /\ WithStatus("pending") # {}
       THEN /\ rec' = [RecIdle EXCEPT !.pc = "mark",
                                      !.found = IdsOf(WithStatus("pending"))]
            /\ budget' = [budget EXCEPT !.recoveries = @ - 1]
       ELSE /\ rec' = IF FolderExists /\ WithStatus("pending") # {}
                      THEN [RecIdle EXCEPT !.skipped = Folder.status]
                      ELSE RecIdle
            /\ UNCHANGED budget
    /\ UNCHANGED <<download, dbInit, clock, limiter, env, script, drive, folders, images, nextId, jobs, folderProgress, api,
                   ghost>>

\* prisma.folder.update({ status: "processing" })
RecoverMark ==
    /\ rec.pc = "mark"
    /\ folders' = FolderUpdate([status |-> "processing"])
    /\ rec' = [rec EXCEPT !.pc = "queue"]
    /\ UNCHANGED <<download, dbInit, clock, limiter, env, script, drive, images, nextId, jobs, folderProgress, api,
                   ghost, budget>>

\* One queueImageBatch per batch of five of the images found.
RecoverQueue ==
    /\ rec.pc = "queue"
    /\ jobs' = queueImageBatches(jobs, rec.found)
    /\ rec' = RecIdle
    /\ UNCHANGED <<download, dbInit, clock, limiter, env, script, drive, folders, images, nextId, folderProgress, api,
                   ghost, budget>>

\* ------------------------------------------------------- the retry endpoint
\* The reset of the retry operations: status pending and caption, tags,
\* captionVec and error null, in one UPDATE.
ResetFields == [status |-> "pending", caption |-> FALSE, tags |-> FALSE,
                captionVec |-> FALSE, error |-> null]

\* POST with an imageId: prisma.image.findUnique, 404 when there is no row.
\* The request names the row file f has at the time.
RetryImageBegin(f) ==
    /\ api.op = "idle"
    /\ budget.requests > 0
    /\ budget' = [budget EXCEPT !.requests = @ - 1]
    /\ api' = IF f \in DOMAIN images
              THEN [Idle EXCEPT !.op = "retry-image", !.pc = "reset",
                                !.image = IdsOf({f})]
              ELSE [Idle EXCEPT !.last = "NotFound"]
    /\ UNCHANGED <<download, dbInit, clock, limiter, env, script, drive, folders, images, nextId, jobs, folderProgress,
                   rec, ghost>>

\* UPDATE images SET status = 'pending', caption = NULL, ... WHERE id = ...
RetryImageReset ==
    /\ api.op = "retry-image"
    /\ api.pc = "reset"
    /\ images' = [f \in DOMAIN images |->
                    IF f \in DOMAIN api.image /\ images[f].id = api.image[f]
                    THEN [k \in DOMAIN images[f] |->
                            IF k \in DOMAIN ResetFields THEN ResetFields[k]
                            ELSE images[f][k]]
                    ELSE images[f]]
    /\ api' = [api EXCEPT !.pc = "queue"]
    /\ UNCHANGED <<download, dbInit, clock, limiter, env, script, drive, folders, nextId, jobs, folderProgress, rec,
                   ghost, budget>>

\* imageQueue.add("image", ...): a single-image job.
RetryImageQueue ==
    /\ api.op = "retry-image"
    /\ api.pc = "queue"
    /\ jobs' = Append(jobs, NewJob("images", "image", api.image))
    /\ api' = [Idle EXCEPT !.last = "ok"]
    /\ UNCHANGED <<download, dbInit, clock, limiter, env, script, drive, folders, images, nextId, folderProgress, rec,
                   ghost, budget>>

\* POST with a folderId: prisma.folder.findUnique, 404 when there is none.
\* `retryable` is history: the rows that are failed or pending as the request
\* starts.
RetryFolderBegin ==
    /\ api.op = "idle"
    /\ budget.requests > 0
    /\ budget' = [budget EXCEPT !.requests = @ - 1]
    /\ api' = IF FolderExists
              THEN [Idle EXCEPT !.op = "retry-folder", !.pc = "findFailed",
                                !.existingStatus = Folder.status,
                                !.retryable = IdsOf(WithStatus("failed")
                                                    \cup WithStatus("pending"))]
              ELSE [Idle EXCEPT !.last = "NotFound"]
    /\ UNCHANGED <<download, dbInit, clock, limiter, env, script, drive, folders, images, nextId, jobs, folderProgress,
                   rec, ghost>>

\* prisma.image.findMany({ status: "failed" })
RetryFolderFindFailed ==
    /\ api.op = "retry-folder"
    /\ api.pc = "findFailed"
    /\ api' = [api EXCEPT !.pc = "findPending",
                          !.failedImages = IdsOf(WithStatus("failed"))]
    /\ UNCHANGED <<download, dbInit, clock, limiter, env, script, drive, folders, images, nextId, jobs, folderProgress,
                   rec, ghost, budget>>

\* The images the folder retry enqueues: [...failedImages, ...pendingImages].
allImages(a) ==
    [f \in DOMAIN a.failedImages \cup DOMAIN a.pendingImages |->
       IF f \in DOMAIN a.failedImages THEN a.failedImages[f] ELSE a.pendingImages[f]]

\* prisma.image.findMany({ status: "pending" }), and 404 when neither query
\* found an image.
RetryFolderFindPending ==
    /\ api.op = "retry-folder"
    /\ api.pc = "findPending"
    /\ LET pendingImages == IdsOf(WithStatus("pending"))
       IN api' = IF DOMAIN api.failedImages = {} /\ DOMAIN pendingImages = {}
                 THEN [Idle EXCEPT !.last = "NotFound"]
                 ELSE [api EXCEPT !.pendingImages = pendingImages,
                                  !.pc = IF DOMAIN api.failedImages # {} THEN "reset"
                                         ELSE IF api.existingStatus # "processing"
                                         THEN "mark" ELSE "queue"]
    /\ UNCHANGED <<download, dbInit, clock, limiter, env, script, drive, folders, images, nextId, jobs, folderProgress,
                   rec, ghost, budget>>

\* UPDATE images SET status = 'pending', caption = NULL, ... WHERE "folderId"
\* = ... AND status = 'failed': every row that is failed at this moment.
RetryFolderReset ==
    /\ api.op = "retry-folder"
    /\ api.pc = "reset"
    /\ images' = [f \in DOMAIN images |->
                    IF images[f].status = "failed"
                    THEN [k \in DOMAIN images[f] |->
                            IF k \in DOMAIN ResetFields THEN ResetFields[k]
                            ELSE images[f][k]]
                    ELSE images[f]]
    /\ api' = [api EXCEPT !.pc = IF api.existingStatus # "processing"
                                 THEN "mark" ELSE "queue"]
    /\ UNCHANGED <<download, dbInit, clock, limiter, env, script, drive, folders, nextId, jobs, folderProgress, rec,
                   ghost, budget>>

\* prisma.folder.update({ status: "processing" }) when the folder read at the
\* start was not processing.
RetryFolderMark ==
    /\ api.op = "retry-folder"
    /\ api.pc = "mark"
    /\ folders' = FolderUpdate([status |-> "processing"])
    /\ api' = [api EXCEPT !.pc = "queue"]
    /\ UNCHANGED <<download, dbInit, clock, limiter, env, script, drive, images, nextId, jobs, folderProgress, rec,
                   ghost, budget>>

\* One queueImageBatch per batch of five of allImages.
RetryFolderQueue ==
    /\ api.op = "retry-folder"
    /\ api.pc = "queue"
    /\ jobs' = queueImageBatches(jobs, allImages(api))
    /\ api' = [Idle EXCEPT !.last = "ok", !.failedImages = api.failedImages,
                           !.pendingImages = api.pendingImages]
    /\ UNCHANGED <<download, dbInit, clock, limiter, env, script, drive, folders, images, nextId, folderProgress, rec,
                   ghost, budget>>

\* ------------------------------------------------------- worker restarts
\* The worker process exits on SIGTERM or SIGINT (process.exit(0)) and the
\* platform starts it again: the executions of the active jobs and the
\* in-memory progress map are gone, the jobs stay active in the queue with
\* nobody working on them (pc "dead").
WorkerExit ==
    /\ budget.restarts > 0
    /\ budget' = [budget EXCEPT !.restarts = @ - 1]
    /\ jobs' = [j \in DOMAIN jobs |->
                  IF jobs[j].state = "active"
                  THEN [jobs[j] EXCEPT !.pc = "dead",
                                       !.mem = [f \in DOMAIN @ |-> NoExec]]
                  ELSE jobs[j]]
    /\ folderProgress' = NoFolderProgress
    /\ UNCHANGED <<download, dbInit, clock, limiter, env, script, drive, folders, images, nextId, api, rec, ghost>>

\* The active jobs nobody works on.
Dead == {j \in DOMAIN jobs : jobs[j].state = "active" /\ jobs[j].pc = "dead"}

\* ------------------------------------------------- the recover-jobs script
\* const stalledThreshold = 5 * 60 * 1000, in minutes
stalledThreshold == 5

\* new Error('Job stalled - worker restart recovery')
StalledReason == "Job stalled - worker restart recovery"

\* The script starts and calls recoverStalledJobs, which moves the jobs
\* `stalled` to failed and returns their number.
RecoverJobsBeginWith(stalled) ==
    /\ script.op = "none"
    /\ budget.scripts > 0
    /\ budget' = [budget EXCEPT !.scripts = @ - 1]
    /\ jobs' = [j \in DOMAIN jobs |->
                  IF j \in stalled
                  THEN [jobs[j] EXCEPT !.state = "failed", !.pc = "none",
                                       !.failedReason = StalledReason]
                  ELSE jobs[j]]
    /\ script' = [NoScript EXCEPT !.op = "recover-jobs", !.pc = "find",
                                  !.recoveredCount = Cardinality(stalled)]
    /\ UNCHANGED <<download, dbInit, clock, limiter, env, drive, folders, images, nextId,
                   folderProgress, api, rec, ghost>>

\* recoverStalledJobs where time is not modelled: any of the dead jobs may
\* be older than five minutes (the jobs of a running worker are taken to be
\* younger).
RecoverJobsBegin == \E stalled \in SUBSET Dead : RecoverJobsBeginWith(stalled)

\* The active jobs that have been active for five minutes or more.
StalledFromThreshold ==
    {j \in DOMAIN jobs : /\ jobs[j].state = "active"
                         /\ jobs[j].processedOn # 0
                         /\ clock - jobs[j].processedOn >= stalledThreshold}

\* job.processedOn && now - job.processedOn > stalledThreshold, over the
\* active jobs of the two queues.
Stalled ==
    {j \in DOMAIN jobs : /\ jobs[j].state = "active"
                         /\ jobs[j].processedOn # 0
                         /\ clock - jobs[j].processedOn > stalledThreshold}

\* recoverStalledJobs with the clock: its reads and moves are one step.
RecoverJobsBeginTimed == RecoverJobsBeginWith(Stalled)

\* A minute passes.
ClockTick ==
    /\ clock < MaxClock
    /\ clock' = clock + 1
    /\ UNCHANGED <<download, dbInit, limiter, env, script, drive, folders, images, nextId,
                   jobs, folderProgress, api, rec, ghost, budget>>

\* The script's query for stuck images: the rows in status processing whose
\* updatedAt is older than five minutes.  Any of the processing rows may be
\* that old.
RecoverJobsFind ==
    /\ script.op = "recover-jobs"
    /\ script.pc = "find"
    /\ \E stuckImages \in SUBSET WithStatus("processing") :
         script' = [script EXCEPT !.pc = IF stuckImages # {} THEN "reset"
                                         ELSE "folders",
                                  !.stuck = IdsOf(stuckImages)]
    /\ UNCHANGED <<download, dbInit, clock, limiter, env, drive, folders, images, nextId, jobs, folderProgress, api,
                   rec, ghost, budget>>

\* prisma.image.updateMany({ id in stuck }, { status: "pending", error: null })
RecoverJobsReset ==
    /\ script.op = "recover-jobs"
    /\ script.pc = "reset"
    /\ images' = [f \in DOMAIN images |->
                    IF f \in DOMAIN script.stuck /\ images[f].id = script.stuck[f]
                    THEN [images[f] EXCEPT !.status = "pending", !.error = null]
                    ELSE images[f]]
    /\ script' = [script EXCEPT !.pc = "folders"]
    /\ UNCHANGED <<download, dbInit, clock, limiter, env, drive, folders, nextId, jobs, folderProgress, api, rec,
                   ghost, budget>>

\* prisma.folder.findMany({ status in [processing, pending] }) and, for the
\* folder found, the count of its completed images.
RecoverJobsFolders ==
    /\ script.op = "recover-jobs"
    /\ script.pc = "folders"
    /\ script' = IF FolderExists /\ Folder.status \in {"processing", "pending"}
                 THEN [script EXCEPT !.pc = "fix", !.listed = TRUE,
                                     !.processedImages = Folder.processedImages,
                                     !.completedCount = CountCompleted]
                 ELSE NoScript
    /\ UNCHANGED <<download, dbInit, clock, limiter, env, drive, folders, images, nextId, jobs, folderProgress, api,
                   rec, ghost, budget>>

\* prisma.folder.update({ processedImages: completedCount }) when the folder
\* as listed had another value; the script ends.
RecoverJobsFix ==
    /\ script.op = "recover-jobs"
    /\ script.pc = "fix"
    /\ folders' = IF script.processedImages # script.completedCount
                  THEN FolderUpdate([processedImages |-> script.completedCount])
                  ELSE folders
    /\ script' = NoScript
    /\ UNCHANGED <<download, dbInit, clock, limiter, env, drive, images, nextId, jobs, folderProgress, api, rec,
                   ghost, budget>>

\* ------------------------------------------------- the retry-folder script
\* prisma.folder.findUnique; the script exits when there is no folder.
RetryScriptBegin ==
    /\ script.op = "none"
    /\ budget.scripts > 0
    /\ budget' = [budget EXCEPT !.scripts = @ - 1]
    /\ script' = IF FolderExists
                 THEN [NoScript EXCEPT !.op = "retry-folder", !.pc = "update"]
                 ELSE NoScript
    /\ UNCHANGED <<download, dbInit, clock, limiter, env, drive, folders, images, nextId, jobs, folderProgress, api,
                   rec, ghost>>

\* prisma.folder.update({ status: "pending", processedImages: 0 })
RetryScriptUpdate ==
    /\ script.op = "retry-folder"
    /\ script.pc = "update"
    /\ folders' = FolderUpdate([status |-> "pending", processedImages |-> 0])
    /\ script' = [script EXCEPT !.pc = "reset"]
    /\ UNCHANGED <<download, dbInit, clock, limiter, env, drive, images, nextId, jobs, folderProgress, api, rec,
                   ghost, budget>>

\* UPDATE images SET status = 'pending', caption = NULL, ... WHERE "folderId"
\* = ...: every row of the folder.
RetryScriptReset ==
    /\ script.op = "retry-folder"
    /\ script.pc = "reset"
    /\ images' = [f \in DOMAIN images |->
                    [k \in DOMAIN images[f] |->
                       IF k \in DOMAIN ResetFields THEN ResetFields[k]
                       ELSE images[f][k]]]
    /\ script' = [script EXCEPT !.pc = "queue"]
    /\ UNCHANGED <<download, dbInit, clock, limiter, env, drive, folders, nextId, jobs, folderProgress, api, rec,
                   ghost, budget>>

\* queueFolderProcessing; the script ends.
RetryScriptQueue ==
    /\ script.op = "retry-folder"
    /\ script.pc = "queue"
    /\ jobs' = queueFolderProcessing(jobs)
    /\ script' = NoScript
    /\ UNCHANGED <<download, dbInit, clock, limiter, env, drive, folders, images, nextId, folderProgress, api, rec,
                   ghost, budget>>

\* ------------------------------------------------------ the search endpoint
\* Strings are sequences of characters.  The names of the image files:
\* cat.jpg, "my dog.png" and sun.heic.
NameOf(f) ==
    CASE f = 1 -> <<"c", "a", "t", ".", "j", "p", "g">>
      [] f = 2 -> <<"m", "y", " ", "d", "o", "g", ".", "p", "n", "g">>
      [] OTHER -> <<"s", "u", "n", ".", "h", "e", "i", "c">>

\* Pairs of queries that differ only in letter case or in the amount of
\* whitespace: "dog" and " Dog ", "cat" and "CAT", "my dog" and "My   Dog",
\* "my dog.png" and "my  dog.png".
Variants ==
    { << <<"d", "o", "g">>, <<" ", "D", "o", "g", " ">> >>,
      << <<"c", "a", "t">>, <<"C", "A", "T">> >>,
      << <<"m", "y", " ", "d", "o", "g">>,
         <<"M", "y", " ", " ", " ", "D", "o", "g">> >>,
      << <<"m", "y", " ", "d", "o", "g", ".", "p", "n", "g">>,
         <<"m", "y", " ", " ", "d", "o", "g", ".", "p", "n", "g">> >> }

\* The queries sent to the endpoint: "cat", " Dog ", "sun", "do", ".png",
\* "cat.jpg", "g", " " and the variants.
Queries ==
    {v[1] : v \in Variants} \cup {v[2] : v \in Variants} \cup
    { <<"c", "a", "t">>,
      <<"g">>,
      <<" ", "D", "o", "g", " ">>,
      <<"s", "u", "n">>,
      <<"d", "o">>,
      <<".", "p", "n", "g">>,
      <<"c", "a", "t", ".", "j", "p", "g">>,
      <<" ">> }

\* String.prototype.trim
RECURSIVE TrimStart(_)
TrimStart(s) == IF s # <<>> /\ Head(s) = " " THEN TrimStart(Tail(s)) ELSE s

RECURSIVE TrimEnd(_)
TrimEnd(s) ==
    IF s # <<>> /\ s[Len(s)] = " " THEN TrimEnd(SubSeq(s, 1, Len(s) - 1)) ELSE s

trim(s) == TrimEnd(TrimStart(s))

\* SQL LOWER, on the letters that occur.
LOWER(s) ==
    [i \in 1..Len(s) |-> CASE s[i] = "A" -> "a"
                           [] s[i] = "C" -> "c"
                           [] s[i] = "D" -> "d"
                           [] s[i] = "M" -> "m"
                           [] s[i] = "O" -> "o"
                           [] s[i] = "T" -> "t"
                           [] OTHER -> s[i]]

\* String.prototype.toLowerCase, on the same letters.
toLowerCase(s) == LOWER(s)

\* replace(/\s+/g, ' '): every run of whitespace becomes one blank.
RECURSIVE collapse(_)
collapse(s) ==
    IF s = <<>> THEN <<>>
    ELSE IF Head(s) = " " /\ Tail(s) # <<>> /\ Head(Tail(s)) = " "
         THEN collapse(Tail(s))
         ELSE <<Head(s)>> \o collapse(Tail(s))

\* A normalization that leaves the runs of whitespace as they are.
normalizeKeepingRuns(text) == toLowerCase(trim(text))

\* text.trim().toLowerCase().replace(/\s+/g, ' ')
normalizeTextForEmbedding(text) == collapse(toLowerCase(trim(text)))

\* generateTextEmbedding: the text passed to model.embedContent.
generateTextEmbedding(text, normalize) ==
    IF normalize THEN normalizeTextForEmbedding(text) ELSE text

\* tags.join(" ")
RECURSIVE join(_)
join(tags) ==
    IF tags = <<>> THEN <<>>
    ELSE IF Len(tags) = 1 THEN Head(tags)
    ELSE Head(tags) \o <<" ">> \o join(Tail(tags))

\* generateCaptionEmbedding: the text embedded for a caption and its tags.
generateCaptionEmbedding(caption, tags) ==
    generateTextEmbedding(caption \o <<" ">> \o join(tags), TRUE)

\* String.prototype.includes, and LIKE '%t%' for a t without wildcards.
includes(s, t) ==
    \E i \in 0..(Len(s) - Len(t)) : SubSeq(s, i + 1, i + Len(t)) = t

\* A classification by the dot alone.
isFilenameSearchDotOnly(trimmedQuery) == includes(trimmedQuery, <<".">>)

\* trimmedQuery.includes('.') || trimmedQuery.length < 3
isFilenameSearch(trimmedQuery) ==
    includes(trimmedQuery, <<".">>) \/ Len(trimmedQuery) < 3

\* LIKE 't%' for a t without wildcards.
startsWith(s, t) == Len(t) <= Len(s) /\ SubSeq(s, 1, Len(t)) = t

\* The ORDER BY CASE of the filename query: 1 for a name equal to the query,
\* 2 for a name that starts with it, 3 otherwise.
rank(f, trimmedQuery) ==
    IF LOWER(NameOf(f)) = LOWER(trimmedQuery) THEN 1
    ELSE IF startsWith(LOWER(NameOf(f)), LOWER(trimmedQuery)) THEN 2
    ELSE 3

\* The similarity column of the filename query, in tenths: 1.0, 0.8, 0.6
\* (its ELSE 0.5 is never taken, the WHERE clause being the third WHEN).
similarity(f, trimmedQuery) ==
    IF LOWER(NameOf(f)) = LOWER(trimmedQuery) THEN 10
    ELSE IF startsWith(LOWER(NameOf(f)), LOWER(trimmedQuery)) THEN 8
    ELSE IF includes(LOWER(NameOf(f)), LOWER(trimmedQuery)) THEN 6
    ELSE 5

\* The order of the characters that occur in names.
Alphabet ==
    <<" ", ".", "a", "c", "d", "e", "g", "h", "i", "j", "m", "n", "o", "p", "s", "t",
      "u", "y">>
Code(ch) == CHOOSE i \in DOMAIN Alphabet : Alphabet[i] = ch

\* ORDER BY name: s sorts before t.
RECURSIVE NameBefore(_, _)
NameBefore(s, t) ==
    IF t = <<>> THEN FALSE
    ELSE IF s = <<>> THEN TRUE
    ELSE IF Head(s) # Head(t) THEN Code(Head(s)) < Code(Head(t))
    ELSE NameBefore(Tail(s), Tail(t))

\* The rows of S in the order of ORDER BY rank, name.
RECURSIVE Ordered(_, _)
Ordered(S, trimmedQuery) ==
    IF S = {} THEN <<>>
    ELSE LET first == CHOOSE f \in S : \A g \in S \ {f} :
                         \/ rank(f, trimmedQuery) < rank(g, trimmedQuery)
                         \/ /\ rank(f, trimmedQuery) = rank(g, trimmedQuery)
                            /\ NameBefore(NameOf(f), NameOf(g))
         IN <<first>> \o Ordered(S \ {first}, trimmedQuery)

\* The filename query: the completed rows whose name contains the query,
\* case-insensitively, in order, each with its similarity (fewer than the
\* smallest LIMIT, so all of them).
filenameResults(trimmedQuery) ==
    LET S == {f \in WithStatus("completed") :
                includes(LOWER(NameOf(f)), LOWER(trimmedQuery))}
        rows == Ordered(S, trimmedQuery)
    IN [i \in DOMAIN rows |->
          [file |-> rows[i], similarity |-> similarity(rows[i], trimmedQuery)]]

\* The pgvector query: the completed rows that have a captionVec.
semanticResults == {f \in WithStatus("completed") : images[f].captionVec}

\* ensurePgvectorExtension rejects when the database has no pgvector
\* extension and cannot create it (the promise is memoized, so it rejects at
\* every call of the process).
ensurePgvectorExtensionThrows == ~env.pgvector

\* Number.parseInt of a JSON integer: that integer.
parseInt(topK) == topK

Max(a, b) == IF a > b THEN a ELSE b

\* Math.min(Math.max(1, Number.parseInt(topK) || 12), 50): 0 is falsy.
maxResults(topK) ==
    Min(Max(1, IF parseInt(topK) = 0 THEN 12 ELSE parseInt(topK)), 50)

\* LIMIT n on ordered rows.
Limit(rows, n) == SubSeq(rows, 1, Min(Len(rows), n))

\* The response of POST /api/search to a query and a topK, in the current
\* state of the database; `submitted` is the text passed to the embedding
\* service, `maxResults` the LIMIT of the query sent to the database.  (The
\* folders of the specifications hold fewer rows with a captionVec than any
\* LIMIT, so the nearest rows are all of them.)
searchResponseTopK(query, topK) ==
    LET trimmedQuery == trim(query)
    IN IF Len(trimmedQuery) = 0
       THEN [NoSearch EXCEPT !.query = query, !.status = "error", !.topK = topK]
       ELSE IF isFilenameSearch(trimmedQuery)
       THEN [query |-> query, status |-> "success", searchType |-> "filename",
             submitted |-> <<>>,
             results |-> Limit(filenameResults(trimmedQuery), maxResults(topK)),
             topK |-> topK, maxResults |-> maxResults(topK)]
       ELSE IF ensurePgvectorExtensionThrows
       THEN [NoSearch EXCEPT !.query = query, !.status = "error", !.topK = topK]
       ELSE [query |-> query, status |-> "success", searchType |-> "semantic",
             submitted |->
                generateTextEmbedding(normalizeTextForEmbedding(trimmedQuery), TRUE),
             results |-> semanticResults,
             topK |-> topK, maxResults |-> maxResults(topK)]

\* const { folderId, query, topK = 12 }: a body without topK.
searchResponse(query) == searchResponseTopK(query, 12)

\* POST /api/search with a query and a topK for the folder: its reads are
\* one step.
SearchTopK(query, topK) ==
    /\ api.op = "idle"
    /\ budget.searches > 0
    /\ budget' = [budget EXCEPT !.searches = @ - 1]
    /\ api' = [Idle EXCEPT
                 !.last = IF Len(trim(query)) = 0 THEN "BadRequest"
                          ELSE IF searchResponseTopK(query, topK).status = "success"
                          THEN "ok"
                          ELSE "InternalServerError",
                 !.search = searchResponseTopK(query, topK)]
    /\ UNCHANGED <<download, dbInit, clock, limiter, env, script, drive, folders, images,
                   nextId, jobs, folderProgress, rec, ghost>>

\* The same with a body that has no topK.
Search(query) == SearchTopK(query, 12)

\* ------------------------------------------------------------ RateLimiter
\* this.requests.filter((time) => now - time < this.windowMs)
RECURSIVE InWindow(_, _)
InWindow(requests, now) ==
    IF requests = <<>> THEN <<>>
    ELSE IF now - Head(requests) < windowMs
         THEN <<Head(requests)>> \o InWindow(Tail(requests), now)
         ELSE InWindow(Tail(requests), now)

\* Math.min(...requests)
Oldest(requests) ==
    CHOOSE t \in {requests[i] : i \in DOMAIN requests} :
       \A i \in DOMAIN requests : t <= requests[i]

\* Time passes (a timer may fire late, never early).
Tick ==
    /\ limiter.now < MaxTime
    /\ limiter' = [limiter EXCEPT !.now = @ + 1]
    /\ UNCHANGED <<download, dbInit, clock, env, script, drive, folders, images, nextId,
                   jobs, folderProgress,
                   api, rec, ghost, budget>>

\* waitIfNeeded up to its await: the old requests are dropped; when the
\* window is full the caller sleeps until the oldest request leaves it,
\* otherwise it records `now` and returns.
WaitIfNeeded(c) ==
    /\ limiter.callers[c].pc = "idle"
    /\ LET now == limiter.now
           requests == InWindow(limiter.requests, now)
           waitTime == windowMs - (now - Oldest(requests))
       IN IF Len(requests) >= maxRequests /\ waitTime > 0
          THEN limiter' = [limiter EXCEPT
                             !.requests = requests,
                             !.callers[c] = [pc |-> "sleeping", now |-> now,
                                             wakeAt |-> now + waitTime]]
          ELSE limiter' = [limiter EXCEPT
                             !.requests = Append(requests, now),
                             !.callers[c] = [NotCalled EXCEPT !.pc = "done"],
                             !.released = Append(@, now)]
    /\ UNCHANGED <<download, dbInit, clock, env, script, drive, folders, images, nextId,
                   jobs, folderProgress,
                   api, rec, ghost, budget>>

\* The timer of a sleeping caller fires: this.requests.push(now), with the
\* `now` read before the wait, and waitIfNeeded returns.
WakeUp(c) ==
    /\ limiter.callers[c].pc = "sleeping"
    /\ limiter.now >= limiter.callers[c].wakeAt
    /\ limiter' = [limiter EXCEPT
                     !.requests = Append(@, limiter.callers[c].now),
                     !.callers[c] = [NotCalled EXCEPT !.pc = "done"],
                     !.released = Append(@, limiter.now)]
    /\ UNCHANGED <<download, dbInit, clock, env, script, drive, folders, images, nextId,
                   jobs, folderProgress,
                   api, rec, ghost, budget>>

\* ------------------------------------------------------------------ db-init
\* The statements of db-init.
SelectExtension == "SELECT extname FROM pg_extension WHERE extname = 'vector'"
CreateExtension == "CREATE EXTENSION IF NOT EXISTS vector"

\* new Error("pgvector extension is not available on this PostgreSQL
\* instance. ..."), and an error of the database client, thrown as it is.
NotAvailableError ==
    [name |-> "Error", message |-> "pgvector extension is not available"]
OtherError == [name |-> "PrismaClientError", message |-> "other"]

\* What the database may answer to the check and to CREATE EXTENSION: a
\* database with the extension (or able to create it), or one without,
\* where a statement may also fail for another reason.
CheckOutcomes ==
    IF env.pgvector THEN {"present", "absent"} ELSE {"absent", "P2010", "other"}
CreateOutcomes ==
    IF env.pgvector THEN {"created"} ELSE {"not available", "other"}

\* ensurePgvectorExtension() by caller c, which awaits the promise returned.
\* The first call creates the promise, whose body runs up to its first
\* await: the availability check, not yet done, is sent.
EnsurePgvectorExtension(c) ==
    /\ c \notin DOMAIN dbInit.callers
    /\ dbInit' =
         LET called == [dbInit EXCEPT !.callers = @ @@ (c :> "awaiting")]
         IN IF dbInit.pgvectorReady # null THEN called
            ELSE IF ~dbInit.pgvectorCheckDone
            THEN [called EXCEPT !.pgvectorReady = "pending", !.pc = "check",
                                !.queries = Append(@, SelectExtension)]
            ELSE IF dbInit.pgvectorAvailable
            THEN [called EXCEPT !.pgvectorReady = "fulfilled", !.pc = "done"]
            ELSE [called EXCEPT !.pgvectorReady = "pending", !.pc = "create",
                                !.queries = Append(@, CreateExtension)]
    /\ UNCHANGED <<download, clock, limiter, env, script, drive, folders, images, nextId,
                   jobs, folderProgress, api, rec, ghost, budget>>

\* checkPgvectorAvailability returns or throws; without the extension the
\* body goes on to CREATE EXTENSION.
CheckReturns(outcome) ==
    /\ dbInit.pc = "check"
    /\ outcome \in CheckOutcomes
    /\ dbInit' =
         IF outcome = "other"
         THEN [dbInit EXCEPT !.pgvectorReady = "rejected", !.error = OtherError,
                             !.pc = "done"]
         ELSE IF outcome = "present"
         THEN [dbInit EXCEPT !.pgvectorCheckDone = TRUE, !.pgvectorAvailable = TRUE,
                             !.pgvectorReady = "fulfilled", !.pc = "done"]
         ELSE [dbInit EXCEPT !.pgvectorCheckDone = TRUE, !.pgvectorAvailable = FALSE,
                             !.pc = "create",
                             !.queries = Append(@, CreateExtension)]
    /\ UNCHANGED <<download, clock, limiter, env, script, drive, folders, images, nextId,
                   jobs, folderProgress, api, rec, ghost, budget>>

\* CREATE EXTENSION returns or throws: the promise is settled.
CreateReturns(outcome) ==
    /\ dbInit.pc = "create"
    /\ outcome \in CreateOutcomes
    /\ dbInit' =
         IF outcome = "created"
         THEN [dbInit EXCEPT !.pgvectorAvailable = TRUE,
                             !.pgvectorReady = "fulfilled", !.pc = "done"]
         ELSE [dbInit EXCEPT !.pgvectorReady = "rejected", !.pc = "done",
                             !.error = IF outcome = "not available"
                                       THEN NotAvailableError ELSE OtherError]
    /\ UNCHANGED <<download, clock, limiter, env, script, drive, folders, images, nextId,
                   jobs, folderProgress, api, rec, ghost, budget>>

\* The await of caller c ends with the settled promise.
Settled(c) ==
    /\ c \in DOMAIN dbInit.callers
    /\ dbInit.callers[c] = "awaiting"
    /\ dbInit.pgvectorReady \in {"fulfilled", "rejected"}
    /\ dbInit' = [dbInit EXCEPT !.callers[c] = dbInit.pgvectorReady]
    /\ UNCHANGED <<download, clock, limiter, env, script, drive, folders, images, nextId,
                   jobs, folderProgress, api, rec, ghost, budget>>

\* ------------------------------------------------------- downloadWithRetry
\* downloadWithRetry(fileId, maxRetries = 3, accessToken)
maxRetries == 3

\* Math.random() * 1000, in milliseconds: some values of [0, 1000).
Jitters == {0, 500, 999}

\* A fixed delay of two seconds.
baseDelayFixed(attempt) == 2000

\* Math.pow(2, attempt) * 1000
baseDelay(attempt) == (2 ^ attempt) * 1000

getDownloadUrl == "drive.google.com/uc?export=download"
getAuthenticatedDownloadUrl == "www.googleapis.com/drive/v3/files?alt=media"

\* The entries of the history of a call.
Acquired == [op |-> "waitIfNeeded", kind |-> "", url |-> "", authorization |-> FALSE,
             ok |-> FALSE, ms |-> 0]
Fetched(kind, url, ok) ==
    [op |-> "fetch", kind |-> kind, url |-> url,
     authorization |-> env.accessToken # undefined, ok |-> ok, ms |-> 0]
Delayed(ms) == [Acquired EXCEPT !.op = "setTimeout", !.ms = ms]

\* downloadWithRetry is called with the token of the job: attempt = 1.
DownloadBegin ==
    /\ download.pc = "idle"
    /\ download' = [download EXCEPT !.pc = "wait", !.attempt = 1]
    /\ UNCHANGED <<dbInit, clock, limiter, env, script, drive, folders, images, nextId,
                   jobs, folderProgress, api, rec, ghost, budget>>

\* await driveRateLimiter.waitIfNeeded() returns.
DownloadWait ==
    /\ download.pc = "wait"
    /\ download' = [download EXCEPT !.pc = "fetch", !.log = Append(@, Acquired)]
    /\ UNCHANGED <<dbInit, clock, limiter, env, script, drive, folders, images, nextId,
                   jobs, folderProgress, api, rec, ghost, budget>>

\* The fetch of the attempt ends: with the bytes, which are returned, or
\* with an error, a response that is not ok or the abort after 30 s, which
\* the catch block takes to the alternative URL at the last attempt and to
\* the backoff otherwise.
DownloadFetch(ok) ==
    /\ download.pc = "fetch"
    /\ LET downloadUrl == IF env.accessToken # undefined
                          THEN getAuthenticatedDownloadUrl ELSE getDownloadUrl
           isLastAttempt == download.attempt = maxRetries
       IN download' = [download EXCEPT
                         !.log = Append(@, Fetched("primary", downloadUrl, ok)),
                         !.pc = IF ok THEN "done"
                                ELSE IF isLastAttempt THEN "alternativeWait"
                                ELSE "backoff",
                         !.result = IF ok THEN "buffer" ELSE @]
    /\ UNCHANGED <<dbInit, clock, limiter, env, script, drive, folders, images, nextId,
                   jobs, folderProgress, api, rec, ghost, budget>>

\* await setTimeout(baseDelay + jitter), then the next turn of the loop.
DownloadBackoff(jitter) ==
    /\ download.pc = "backoff"
    /\ download' = [download EXCEPT
                      !.log = Append(@, Delayed(baseDelay(download.attempt) + jitter)),
                      !.attempt = @ + 1,
                      !.pc = "wait"]
    /\ UNCHANGED <<dbInit, clock, limiter, env, script, drive, folders, images, nextId,
                   jobs, folderProgress, api, rec, ghost, budget>>

\* await driveRateLimiter.waitIfNeeded() before the alternative request.
DownloadAlternativeWait ==
    /\ download.pc = "alternativeWait"
    /\ download' = [download EXCEPT !.pc = "alternativeFetch",
                                    !.log = Append(@, Acquired)]
    /\ UNCHANGED <<dbInit, clock, limiter, env, script, drive, folders, images, nextId,
                   jobs, folderProgress, api, rec, ghost, budget>>

\* The fetch of the alternative URL ends: the bytes are returned, or
\* "Failed to download image after 3 attempts" is thrown.
DownloadAlternativeFetch(ok) ==
    /\ download.pc = "alternativeFetch"
    /\ download' = [download EXCEPT
                      !.log = Append(@, Fetched("alternative",
                                                getAuthenticatedDownloadUrl, ok)),
                      !.pc = "done",
                      !.result = IF ok THEN "buffer" ELSE "error"]
    /\ UNCHANGED <<dbInit, clock, limiter, env, script, drive, folders, images, nextId,
                   jobs, folderProgress, api, rec, ghost, budget>>

\* --------------------------------------------------------------------- Spec
IngestStep ==
    \/ IngestBegin
    \/ IngestCreateFolder
    \/ IngestCreateImages
    \/ IngestEnqueue

FolderWorkerStep ==
    \/ \E j \in DOMAIN jobs : FolderJobStart(j)
    \/ \E j \in DOMAIN jobs : FolderSetProcessing(j)
    \/ \E j \in DOMAIN jobs : FolderFindPending(j)
    \/ \E j \in DOMAIN jobs : FolderQueueBatches(j)
    \/ \E j \in DOMAIN jobs : FolderRecount(j)
    \/ \E j \in DOMAIN jobs : FolderFinish(j)

ImageWorkerStep ==
    \/ \E j \in DOMAIN jobs : ImageJobStart(j)
    \/ \E j \in DOMAIN jobs, f \in Files : SetProcessing(j, f)
    \/ \E j \in DOMAIN jobs, f \in Files : ProcessSucceeds(j, f)
    \/ \E j \in DOMAIN jobs, f \in Files : CountProgress(j, f)
    \/ \E j \in DOMAIN jobs, f \in Files : UpdateProgress(j, f)
    \/ \E j \in DOMAIN jobs : ImageJobFinish(j)

\* recoverPendingImages, at startup and every minute.
RecoverStep ==
    \/ RecoverBegin
    \/ RecoverMark
    \/ RecoverQueue

\* A member's external call fails, and a member marks its row failed.
FailureStep ==
    \/ \E j \in DOMAIN jobs, f \in Files : ProcessFails(j, f)
    \/ \E j \in DOMAIN jobs, f \in Files : MarkFailed(j, f)

\* A fresh ingest of a folder of two supported images (and possibly an
\* unsupported one), the folder job and its batch, whose members may fail.
Init ==
    InitWith({{1, 2}, {1, 2, 3}},
             [requests |-> 1, drive |-> 0, recoveries |-> 0, failures |-> MaxFailures,
              starts |-> 2,
              scripts |-> 0, restarts |-> 0,
              reconfigs |-> 0, searches |-> 0])

Next ==
    \/ IngestStep
    \/ FolderWorkerStep
    \/ ImageWorkerStep
    \/ FailureStep

Spec == Init /\ [][Next]_vars

\* A fresh ingest of a folder of one image with the periodic recovery of
\* pending images running beside the workers, which take every job added.
InitRecovery ==
    InitWith({{1}},
             [requests |-> 1, drive |-> 0, recoveries |-> MaxRecoveries, failures |-> 0,
              starts |-> 2 + MaxRecoveries,
              scripts |-> 0, restarts |-> 0,
              reconfigs |-> 0, searches |-> 0])

NextRecovery ==
    \/ IngestStep
    \/ FolderWorkerStep
    \/ ImageWorkerStep
    \/ RecoverBegin
    \/ RecoverMark
    \/ RecoverQueue

SpecRecovery == InitRecovery /\ [][NextRecovery]_vars

\* Ingest and sync requests while the drive content changes and the workers
\* (whose external calls succeed) process the rows.
InitSync ==
    InitWith({{1}},
             [requests |-> MaxRequests, drive |-> MaxDriveChanges,
              recoveries |-> 0, failures |-> 0, starts |-> MaxStarts,
              scripts |-> 0, restarts |-> 0,
              reconfigs |-> 0, searches |-> 0])

NextSync ==
    \/ \E f \in Files : DriveAdd(f)
    \/ \E f \in Files : DriveRemove(f)
    \/ IngestStep
    \/ SyncBegin
    \/ SyncCreate
    \/ SyncDelete
    \/ SyncCount
    \/ SyncUpdate
    \/ SyncRespond
    \/ FolderWorkerStep
    \/ ImageWorkerStep
    \/ \E j \in DOMAIN jobs, f \in Files : MarkFailed(j, f)

SpecSync == InitSync /\ [][NextSync]_vars

\* A folder of two images is ingested once and processed by a batch whose
\* members may fail; the retry endpoint is called while the workers work.
InitRetry ==
    InitWith({{1, 2}},
             [requests |-> 1 + MaxRetries, drive |-> 0, recoveries |-> 0,
              failures |-> MaxFailures, starts |-> 3, scripts |-> 0, restarts |-> 0,
              reconfigs |-> 0, searches |-> 0])

RetryStep ==
    \/ \E f \in Files : RetryImageBegin(f)
    \/ RetryImageReset
    \/ RetryImageQueue
    \/ RetryFolderBegin
    \/ RetryFolderFindFailed
    \/ RetryFolderFindPending
    \/ RetryFolderReset
    \/ RetryFolderMark
    \/ RetryFolderQueue

ScriptStep ==
    \/ RecoverJobsBegin
    \/ RecoverJobsFind
    \/ RecoverJobsReset
    \/ RecoverJobsFolders
    \/ RecoverJobsFix
    \/ RetryScriptBegin
    \/ RetryScriptUpdate
    \/ RetryScriptReset
    \/ RetryScriptQueue

NextRetry ==
    \/ IngestStep
    \/ FolderWorkerStep
    \/ ImageWorkerStep
    \/ \E j \in DOMAIN jobs, f \in Files : FindDetails(j, f)
    \/ FailureStep
    \/ RetryStep

SpecRetry == InitRetry /\ [][NextRetry]_vars

\* A folder of two images is ingested once and processed by a batch whose
\* members may fail; a maintenance script is run while the workers work.
InitScripts ==
    InitWith({{1, 2}},
             [requests |-> 1, drive |-> 0, recoveries |-> 0,
              failures |-> 1, starts |-> 3, scripts |-> MaxScripts, restarts |-> 0,
              reconfigs |-> 0, searches |-> 0])

NextScripts ==
    \/ IngestStep
    \/ FolderWorkerStep
    \/ ImageWorkerStep
    \/ FailureStep
    \/ ScriptStep

SpecScripts == InitScripts /\ [][NextScripts]_vars

\* A folder of one image is ingested and processed while the worker process
\* may be restarted, the periodic recovery runs and an operator may run the
\* recover-jobs script.
InitStalled ==
    InitWith({{1}},
             [requests |-> 1, drive |-> 0, recoveries |-> MaxRecoveries,
              failures |-> 0, starts |-> 2 + MaxRecoveries,
              scripts |-> MaxScripts, restarts |-> MaxRestarts,
              reconfigs |-> 0, searches |-> 0])

\* The recover-jobs script once started.
RecoverJobsRun ==
    \/ RecoverJobsFind
    \/ RecoverJobsReset
    \/ RecoverJobsFolders
    \/ RecoverJobsFix

NextStalled ==
    \/ IngestStep
    \/ FolderWorkerStep
    \/ ImageWorkerStep
    \/ WorkerExit
    \/ RecoverStep
    \/ RecoverJobsBegin
    \/ RecoverJobsRun

\* The workers and the endpoint keep running, setInterval keeps calling
\* recoverPendingImages and a script that was started runs to its end;
\* nothing schedules a restart or a run of the script.
SpecStalled ==
    /\ InitStalled
    /\ [][NextStalled]_vars
    /\ WF_vars(IngestStep)
    /\ WF_vars(FolderWorkerStep)
    /\ WF_vars(ImageWorkerStep)
    /\ WF_vars(RecoverStep)
    /\ WF_vars(RecoverJobsRun)

\* A fresh ingest of a folder of two supported images (and possibly an
\* unsupported one) whose downloads, captions and embeddings all succeed.
InitFresh ==
    InitWith({{1, 2}, {1, 2, 3}},
             [requests |-> 1, drive |-> 0, recoveries |-> MaxRecoveries,
              failures |-> 0, starts |-> 2 + MaxRecoveries, scripts |-> 0,
              restarts |-> 0, reconfigs |-> 0, searches |-> 0])

NextFresh ==
    \/ IngestStep
    \/ FolderWorkerStep
    \/ ImageWorkerStep
    \/ RecoverStep

\* The endpoint answers the request, the workers keep taking and running
\* jobs (every job that is added can be taken) and setInterval keeps calling
\* recoverPendingImages.
SpecFresh ==
    /\ InitFresh
    /\ [][NextFresh]_vars
    /\ WF_vars(IngestStep)
    /\ WF_vars(FolderWorkerStep)
    /\ WF_vars(ImageWorkerStep)
    /\ WF_vars(RecoverStep)

\* A deployment with or without a cap of CappedAt images per folder, which
\* may be deployed again with the other setting; the drive folder changes
\* between the requests.
InitCap ==
    InitEnv({Uncapped, [Uncapped EXCEPT !.maxImagesLimit = CappedAt]},
            {{1}, {1, 2}},
            [requests |-> 2, drive |-> 1, recoveries |-> 0, failures |-> 0,
             starts |-> 2, scripts |-> 0, restarts |-> 0,
             reconfigs |-> MaxReconfigs, searches |-> 0])

SyncStep ==
    \/ SyncBegin
    \/ SyncCreate
    \/ SyncDelete
    \/ SyncCount
    \/ SyncUpdate
    \/ SyncRespond

NextCap ==
    \/ \E limit \in {MaxImagesPerFolder, CappedAt} : Reconfigure(limit)
    \/ \E f \in Files : DriveAdd(f)
    \/ \E f \in Files : DriveRemove(f)
    \/ IngestStep
    \/ SyncStep
    \/ FolderWorkerStep
    \/ ImageWorkerStep

SpecCap == InitCap /\ [][NextCap]_vars

\* A drive folder holding supported, unsupported and untyped files, which
\* changes between the requests to the ingest and sync endpoints.
InitMime ==
    InitWith({{1, 3}, {1, 4}, {2, 3, 4}},
             [requests |-> 2, drive |-> MaxDriveChanges, recoveries |-> 0,
              failures |-> 0, starts |-> 2, scripts |-> 0, restarts |-> 0,
              reconfigs |-> 0, searches |-> 0])

NextMime ==
    \/ \E f \in FilesAndUntyped : DriveAdd(f)
    \/ \E f \in FilesAndUntyped : DriveRemove(f)
    \/ IngestStep
    \/ SyncStep
    \/ FolderWorkerStep
    \/ ImageWorkerStep

SpecMime == InitMime /\ [][NextMime]_vars

\* A database with or without the pgvector extension; a folder of two images
\* is ingested and processed, and the folder is searched meanwhile.
InitSearch ==
    InitEnv({Uncapped, [Uncapped EXCEPT !.pgvector = FALSE]},
            {{1, 2}},
            [requests |-> 1, drive |-> 0, recoveries |-> 0, failures |-> 0,
             starts |-> 2, scripts |-> 0, restarts |-> 0,
             reconfigs |-> 0, searches |-> MaxSearches])

NextSearch ==
    \/ IngestStep
    \/ FolderWorkerStep
    \/ ImageWorkerStep
    \/ \E j \in DOMAIN jobs, f \in Files : MarkFailed(j, f)
    \/ \E query \in Queries : Search(query)

SpecSearch == InitSearch /\ [][NextSearch]_vars

\* One limiter and its concurrent callers, each calling waitIfNeeded once.
InitLimiter ==
    InitWith({{1}},
             [requests |-> 0, drive |-> 0, recoveries |-> 0, failures |-> 0,
              starts |-> 0, scripts |-> 0, restarts |-> 0,
              reconfigs |-> 0, searches |-> 0])

NextLimiter ==
    \/ Tick
    \/ \E c \in Callers : WaitIfNeeded(c)
    \/ \E c \in Callers : WakeUp(c)

SpecLimiter == InitLimiter /\ [][NextLimiter]_vars

\* Ingest requests with each of the folder URLs.
InitUrl ==
    InitEnv({[Uncapped EXCEPT !.folderUrl = u] : u \in Urls},
            {{1, 2}},
            [requests |-> 2, drive |-> 0, recoveries |-> 0, failures |-> 0,
             starts |-> 2, scripts |-> 0, restarts |-> 0,
             reconfigs |-> 0, searches |-> 0])

NextUrl ==
    \/ IngestStep
    \/ FolderWorkerStep
    \/ ImageWorkerStep

SpecUrl == InitUrl /\ [][NextUrl]_vars

\* The store as the ingest that lists through validateAndListImages leaves
\* it: that listing takes every file whose MIME type contains "image/", so
\* the folder has a pending row for each file of the drive folder, image/heic
\* included, and its folder job is queued.
InitImported ==
    /\ env = Uncapped
    /\ script = NoScript
    /\ limiter = NewLimiter
    /\ download = NoDownload
    /\ dbInit = NewDbInit
    /\ clock = 1
    /\ drive \in {{1, 3}, {2, 3}, {1, 2, 3}}
    /\ folders = (DriveFolder :> [id |-> 1, status |-> "pending",
                                  totalImages |-> Cardinality(drive),
                                  processedImages |-> 0])
    /\ images = [f \in drive |->
                   NewRow(f, 1 + CHOOSE i \in DOMAIN SortedSeq(drive) :
                                      SortedSeq(drive)[i] = f)]
    /\ nextId = 2 + Cardinality(drive)
    /\ jobs = queueFolderProcessing(<<>>)
    /\ folderProgress = NoFolderProgress
    /\ api = [Idle EXCEPT !.last = "ok"]
    /\ rec = RecIdle
    /\ ghost = [NoGhost EXCEPT !.clean = TRUE, !.firstId = 1]
    /\ budget = [requests |-> 0, drive |-> 0, recoveries |-> 0, failures |-> 1,
                 starts |-> 2, scripts |-> 0, restarts |-> 0,
                 reconfigs |-> 0, searches |-> 0]

NextImported ==
    \/ FolderWorkerStep
    \/ ImageWorkerStep
    \/ FailureStep

SpecImported == InitImported /\ [][NextImported]_vars

\* Fresh ingests of folders of 1 to MaxFilesInFolder jpeg images, with and
\* without an OAuth token, and their folder jobs; the batch jobs stay waiting.
InitBatch ==
    InitEnv({Uncapped, [Uncapped EXCEPT !.accessToken = "token"]},
            {5..(4 + n) : n \in 1..MaxFilesInFolder},
            [requests |-> 1, drive |-> 0, recoveries |-> 0, failures |-> 0,
             starts |-> 1, scripts |-> 0, restarts |-> 0,
             reconfigs |-> 0, searches |-> 0])

NextBatch ==
    \/ IngestStep
    \/ FolderWorkerStep

SpecBatch == InitBatch /\ [][NextBatch]_vars

\* One call of downloadWithRetry, with or without an OAuth token, whose
\* fetches may succeed or fail.
InitDownload ==
    InitEnv({Uncapped, [Uncapped EXCEPT !.accessToken = "token"]}, {{1}},
            [requests |-> 0, drive |-> 0, recoveries |-> 0, failures |-> 0,
             starts |-> 0, scripts |-> 0, restarts |-> 0,
             reconfigs |-> 0, searches |-> 0])

NextDownload ==
    \/ DownloadBegin
    \/ DownloadWait
    \/ \E ok \in BOOLEAN : DownloadFetch(ok)
    \/ \E jitter \in Jitters : DownloadBackoff(jitter)
    \/ DownloadAlternativeWait
    \/ \E ok \in BOOLEAN : DownloadAlternativeFetch(ok)

SpecDownload == InitDownload /\ [][NextDownload]_vars

\* The values of topK in the requests to the search endpoint.
TopKs == {-5, -1, 0, 1, 2, 12, 50, 51, 100}

\* A folder of one image is ingested and processed, and the folder is
\* searched meanwhile with a topK.
InitTopK ==
    InitWith({{1}},
             [requests |-> 1, drive |-> 0, recoveries |-> 0, failures |-> 0,
              starts |-> 2, scripts |-> 0, restarts |-> 0,
              reconfigs |-> 0, searches |-> 1])

NextTopK ==
    \/ IngestStep
    \/ FolderWorkerStep
    \/ ImageWorkerStep
    \/ \E query \in Queries, topK \in TopKs : SearchTopK(query, topK)

SpecTopK == InitTopK /\ [][NextTopK]_vars

\* One process and the callers of ensurePgvectorExtension, one after the
\* other or at once, on a database with or without the extension.
InitDbInit ==
    InitEnv({Uncapped, [Uncapped EXCEPT !.pgvector = FALSE]}, {{1}},
            [requests |-> 0, drive |-> 0, recoveries |-> 0, failures |-> 0,
             starts |-> 0, scripts |-> 0, restarts |-> 0,
             reconfigs |-> 0, searches |-> 0])

NextDbInit ==
    \/ \E c \in Callers : EnsurePgvectorExtension(c)
    \/ \E outcome \in {"present", "absent", "P2010", "other"} : CheckReturns(outcome)
    \/ \E outcome \in {"created", "not available", "other"} : CreateReturns(outcome)
    \/ \E c \in Callers : Settled(c)

SpecDbInit == InitDbInit /\ [][NextDbInit]_vars

\* A folder of two images is ingested; the workers take the jobs at some
\* minute and the batch stays with its rows in processing; the recover-jobs
\* script is run at some minute.
InitTimed ==
    InitWith({{1, 2}},
             [requests |-> 1, drive |-> 0, recoveries |-> 0, failures |-> 0,
              starts |-> 2, scripts |-> MaxScripts, restarts |-> 0,
              reconfigs |-> 0, searches |-> 0])

NextTimed ==
    \/ ClockTick
    \/ IngestStep
    \/ FolderWorkerStep
    \/ \E j \in DOMAIN jobs : ImageJobStart(j)
    \/ \E j \in DOMAIN jobs, f \in Files : SetProcessing(j, f)
    \/ RecoverJobsBeginTimed
    \/ RecoverJobsRun

SpecTimed == InitTimed /\ [][NextTimed]_vars

\* One ingest of a folder that is not known yet: empty, of unsupported files
\* only, or of images of which one may have a row in another folder; the
\* queue may be out of reach; the workers process what was enqueued.
InitIngestErrors ==
    InitEnv({Uncapped, [Uncapped EXCEPT !.elsewhere = {2}]},
            {{}, {3, 4}, {1, 2}, {1, 2, 3}, {1}},
            [requests |-> 1, drive |-> 0, recoveries |-> 0, failures |-> 1,
             starts |-> 2, scripts |-> 0, restarts |-> 0,
             reconfigs |-> 0, searches |-> 0])

NextIngestErrors ==
    \/ IngestStep
    \/ IngestEnqueueFails
    \/ FolderWorkerStep
    \/ ImageWorkerStep

SpecIngestErrors == InitIngestErrors /\ [][NextIngestErrors]_vars

\* ------------------------------------------------------------------- claims
ImageJobs == {j \in DOMAIN jobs : jobs[j].queue = "images"}

\* C1: in every reachable state the folder row has status completed if and
\* only if totalImages > 0 and processedImages = totalImages.
C1_CompletedIffAllProcessed ==
    FolderExists =>
        (Folder.status = "completed"
            <=> (Folder.totalImages > 0 /\ Folder.processedImages = Folder.totalImages))

\* C2: in every reachable state an image row has status completed if and only
\* if its caption, tags and captionVec are all set.
C2_CompletedIffCaptioned ==
    \A f \in DOMAIN images :
        images[f].status = "completed"
            <=> (images[f].caption /\ images[f].tags /\ images[f].captionVec)

\* C3: in every reachable state processedImages <= totalImages, also while a
\* sync deletes rows and rewrites totalImages beside the image workers.
C3_ProcessedAtMostTotal ==
    FolderExists => Folder.processedImages <= Folder.totalImages

\* The counts of completed rows that an execution has read from the store and
\* is about to write to the folder row.
CountsRead ==
    UNION {{jobs[j].mem[f].cntCompleted : f \in {g \in Files : At(j, g, "update")}} :
             j \in ImageJobs}
    \cup (IF api.pc = "update" THEN {api.updatedProcessedImages} ELSE {})

\* C4: every value written to the folder's processedImages is a count of the
\* completed rows read from the store, never a value of the folderProgress
\* map.
C4_ProcessedWrittenFromCount ==
    [][(FolderExists /\ Folder'.processedImages # Folder.processedImages)
          => Folder'.processedImages \in CountsRead]_vars

\* Every image row is completed and no image job is waiting or active.
AllCompletedAndIdle ==
    /\ FolderExists
    /\ DOMAIN images # {}
    /\ \A f \in DOMAIN images : images[f].status = "completed"
    /\ \A j \in ImageJobs : jobs[j].state \notin {"waiting", "active"}

\* C5: once every image row is completed and no image job is waiting or
\* active, the folder is completed with processedImages = totalImages, also
\* when the updateFolderProgress executions of two members interleave.
C5_FolderCompletedWhenAllDone ==
    AllCompletedAndIdle =>
        (Folder.status = "completed" /\ Folder.processedImages = Folder.totalImages)

\* The executions of processImage that have written processing to the row of
\* file f and have not yet written completed or failed.
Processing(f) ==
    {j \in ImageJobs : At(j, f, "work") /\ RowExists(f, jobs[j].members[f])}

\* C6: for any image row at most one worker execution at a time is between
\* its write of processing and its write of completed or failed.
C6_OneExecutionPerRow ==
    \A f \in Files : Cardinality(Processing(f)) <= 1

\* C7: a batch job that the worker has run ends successful whatever happens
\* to its members, and returns {processed, failed} with processed + failed =
\* the number of its members.
C7_BatchJobSucceeds ==
    \A j \in ImageJobs :
        (jobs[j].attemptsMade > 0 /\ jobs[j].state # "active") =>
            /\ jobs[j].state = "completed"
            /\ jobs[j].returned.processed + jobs[j].returned.failed
                   = Cardinality(DOMAIN jobs[j].members)

\* An ingest of the folder that has a row has done its store writes, and the
\* drive had not changed between the listing of the first ingest and its own.
ReingestUnchanged ==
    /\ api.op = "ingest"
    /\ ~api.fresh
    /\ api.pc = "respond"
    /\ api.clean

\* C8: an ingest of a folder whose row exists, with no change on the drive
\* since the first ingest, returns the id of that row, inserts no image row
\* and deletes none.
C8_ReingestIsEmptyDiff ==
    ReingestUnchanged =>
        /\ Folder.id = ghost.firstId
        /\ api.newImagesAdded = 0
        /\ api.deletedImagesRemoved = 0
        /\ DOMAIN images = api.existing

C8_Witness ==
    ReingestUnchanged /\ DOMAIN images # {} /\ ImageJobs # {}

\* A sync (by either endpoint) whose drive listing equalled the local file
\* ids has written the folder row.
SyncedUpToDate ==
    /\ api.op \in {"sync", "ingest"}
    /\ ~api.fresh
    /\ api.pc = "respond"
    /\ api.upToDate

\* The folder row, as the sync found it when it wrote, agreed with the image
\* rows and with what the sync had read at its start.
AgreedWithRows ==
    /\ api.before.processedImages = Cardinality(api.completedAtCount)
    /\ api.before.status = api.existingStatus
    /\ (api.before.processedImages = api.before.totalImages /\ api.before.totalImages > 0)
          => api.before.status = "completed"

\* C9 as stated: a sync whose drive listing equals the local file ids inserts
\* and deletes no row and leaves totalImages, processedImages and status as
\* they were.
C9_SyncIsNoOp ==
    SyncedUpToDate =>
        /\ api.newImagesAdded = 0
        /\ api.deletedImagesRemoved = 0
        /\ api.wrote = api.before

\* C9, amended: such a sync inserts and deletes no row and leaves totalImages
\* as it was; it sets processedImages to the number of completed rows; and it
\* leaves the whole folder row as it was when that row agreed with the image
\* rows and with the status read at the start of the sync.
C9_SyncKeepsRowsAndTotal ==
    SyncedUpToDate =>
        /\ api.newImagesAdded = 0
        /\ api.deletedImagesRemoved = 0
        /\ DOMAIN images = api.existing
        /\ api.wrote.totalImages = api.before.totalImages
        /\ api.wrote.processedImages = Cardinality(api.completedAtCount)
        /\ AgreedWithRows => api.wrote = api.before

C9_Witness ==
    SyncedUpToDate /\ api.op = "sync" /\ AgreedWithRows /\ api.completedAtCount # {}

\* The second sync of a round trip (x added, sync, x removed, sync) has
\* written the folder row.
RoundTripDone ==
    /\ ghost.phase = "sync2"
    /\ api.pc = "respond"

\* C10 as stated: after the round trip the file ids, totalImages and
\* processedImages of the folder are what they were before x was added.
C10_RoundTripRestores ==
    RoundTripDone =>
        /\ DOMAIN images = ghost.pre.ids
        /\ api.wrote.totalImages = ghost.pre.totalImages
        /\ api.wrote.processedImages = ghost.pre.processedImages

\* C10, amended: after the round trip the file ids and totalImages are what
\* they were before x was added, and so is processedImages when the completed
\* rows are the same as then.
C10_RoundTripRestoresIdsAndTotal ==
    RoundTripDone =>
        /\ DOMAIN images = ghost.pre.ids
        /\ api.wrote.totalImages = ghost.pre.totalImages
        /\ api.completedAtCount = ghost.pre.completed
              => api.wrote.processedImages = ghost.pre.processedImages

C10_Witness ==
    /\ RoundTripDone
    /\ api.op = "sync"
    /\ MimeOf(ghost.x) \in supportedMimeTypes
    /\ api.deletedImagesRemoved = 1
    /\ api.completedAtCount = ghost.pre.completed
    /\ ghost.pre.completed # {}

\* C11: a sync, also the one an ingest of an existing folder runs, never
\* deletes an image row whose status is processing, even when the file is no
\* longer in the drive listing.
C11_SyncKeepsProcessingRows ==
    [][\A f \in DOMAIN images :
          images[f].status = "processing" => f \in DOMAIN images']_vars

\* C12: every operation that sets an existing image row to pending (the
\* single-image retry, the folder retry, the retry-folder script and the
\* reset of stuck processing rows) nulls caption, tags, captionVec and error
\* in the same write.
C12_ResetToPendingClearsFields ==
    [][\A f \in DOMAIN images \cap DOMAIN images' :
          (/\ images'[f].id = images[f].id
           /\ images[f].status # "pending"
           /\ images'[f].status = "pending")
          => (/\ ~images'[f].caption
              /\ ~images'[f].tags
              /\ ~images'[f].captionVec
              /\ images'[f].error = null)]_vars

\* The folder retry responds in this step.
RetryFolderResponds ==
    /\ api.op = "retry-folder"
    /\ api.pc = "queue"
    /\ api'.op = "idle"

\* C13: after a folder retry, every image that was failed or pending
\* beforehand is pending with error null and is a member of exactly one of the
\* image jobs the retry enqueued.
C13_FolderRetryResetsAndEnqueuesOnce ==
    [][RetryFolderResponds =>
         \A f \in DOMAIN api.retryable :
            /\ f \in DOMAIN images'
            /\ images'[f].id = api.retryable[f]
            /\ images'[f].status = "pending"
            /\ images'[f].error = null
            /\ Cardinality({j \in (Len(jobs) + 1)..Len(jobs') :
                              /\ f \in DOMAIN jobs'[j].members
                              /\ jobs'[j].members[f] = api.retryable[f]}) = 1]_vars

\* Row f is stuck: in status processing with no waiting or active job holding
\* it, while the recovery still has a pass to make and the worker can still
\* take jobs.
Stuck(f) ==
    /\ f \in DOMAIN images
    /\ images[f].status = "processing"
    /\ \A j \in DOMAIN jobs :
          jobs[j].state \in {"waiting", "active"} => f \notin DOMAIN jobs[j].members
    /\ budget.recoveries > 0
    /\ budget.starts > 0

\* C14: an image stuck in processing with no active job is eventually reset
\* and re-enqueued by the periodic recovery and processed to completed.
C14_StuckProcessingIsRecovered ==
    \A f \in Files :
       Stuck(f) ~> (f \in DOMAIN images /\ images[f].status = "completed")

\* The rows are exactly the supported images of the drive folder, all
\* completed, and the folder is completed with totalImages = processedImages
\* = their number.
FreshIngestDone ==
    /\ FolderExists
    /\ DOMAIN images = listImagesRecursively
    /\ \A f \in DOMAIN images : images[f].status = "completed"
    /\ Folder.status = "completed"
    /\ Folder.totalImages = Cardinality(listImagesRecursively)
    /\ Folder.processedImages = Cardinality(listImagesRecursively)

\* C15: after a fresh ingest of a folder with n >= 1 supported images, when
\* every download, caption and embedding succeeds and the workers run fairly,
\* the system eventually stays in a state with exactly those n rows, all
\* completed, and the folder completed with totalImages = processedImages = n.
C15_FreshIngestCompletes == <>[]FreshIngestDone

\* The supported images among the files S.
Supported(S) == {f \in S : MimeOf(f) \in supportedMimeTypes}

\* This step takes a new request to the ingest or the sync endpoint.
RequestBegins == budget'.requests < budget.requests

\* The request ended in this step with the cap error and wrote nothing.
CapErrorNoWrite ==
    /\ api'.op = "idle"
    /\ api'.last = "FolderCapExceeded"
    /\ UNCHANGED <<download, dbInit, clock, limiter, folders, images, nextId, jobs>>

\* C16: a fresh ingest whose listing holds more supported images than the cap
\* returns the cap error and creates no folder row, no image row and no job.
C16_FreshIngestOverCapWritesNothing ==
    [][(/\ RequestBegins
        /\ ~FolderExists
        /\ env.maxImagesLimit > 0
        /\ Cardinality(Supported(drive)) > env.maxImagesLimit)
       => CapErrorNoWrite]_vars

\* A fresh ingest was refused for the cap: no folder, no row, no job.
C16_Witness ==
    /\ api.last = "FolderCapExceeded"
    /\ env.maxImagesLimit > 0
    /\ Cardinality(Supported(api.listed)) > env.maxImagesLimit
    /\ ~FolderExists
    /\ images = EmptyFn
    /\ jobs = <<>>

\* The total a sync of the folder would reach on the present drive content.
TotalAfter ==
    Cardinality(DOMAIN images)
      - Cardinality(DOMAIN images \ Supported(drive))
      + Cardinality(Supported(drive) \ DOMAIN images)

\* C17 as stated: a sync whose local total + |New| - |Deleted| is greater than
\* the cap fails with the cap error before any write.
C17_SyncOverCapWritesNothing ==
    [][(/\ RequestBegins
        /\ FolderExists
        /\ env.maxImagesLimit > 0
        /\ TotalAfter > env.maxImagesLimit)
       => CapErrorNoWrite]_vars

\* C17, amended: a sync that finds at least one new image and whose local
\* total + |New| - |Deleted| is greater than the cap fails with the cap error
\* before any write.
C17_SyncOverCapWithNewWritesNothing ==
    [][(/\ RequestBegins
        /\ FolderExists
        /\ Supported(drive) \ DOMAIN images # {}
        /\ env.maxImagesLimit > 0
        /\ TotalAfter > env.maxImagesLimit)
       => CapErrorNoWrite]_vars

\* A sync of an existing folder was refused for the cap.
C17_Witness ==
    /\ api.last = "FolderCapExceeded"
    /\ FolderExists
    /\ env.maxImagesLimit > 0
    /\ Supported(api.listed) \ DOMAIN images # {}
    /\ Cardinality(DOMAIN images \cup Supported(api.listed)) > env.maxImagesLimit

C19_SemanticFallsBackToFilename ==
    (/\ ~env.pgvector
     /\ api.search.query # <<>>
     /\ trim(api.search.query) # <<>>
     /\ ~isFilenameSearch(trim(api.search.query)))
    => (/\ api.search.status = "success"
        /\ api.search.searchType = "filename"
        /\ api.search.results = filenameResults(trim(api.search.query)))

\* C20: when the vector backend is unavailable, an image whose caption and
\* embedding were generated has its caption and tags persisted, its vector
\* left unwritten, and is not marked failed.
C20_CaptionPersistsWithoutVector ==
    [][\A j \in DOMAIN jobs, f \in Files :
          (/\ ~env.pgvector
           /\ At(j, f, "work")
           /\ jobs'[j].mem[f].pc # "work"
           /\ RowExists(f, jobs[j].members[f]))
          => (/\ jobs'[j].mem[f].pc # "markFailed"
              /\ images'[f].caption
              /\ images'[f].tags
              /\ ~images'[f].captionVec
              /\ images'[f].status # "failed")]_vars

\* C21: a failed download, caption or embedding call makes the image job
\* throw, so that the queue retries it, and the row is written failed only by
\* the last of the job's attempts.
C21_FailedOnlyAfterLastAttempt ==
    [][\A j \in DOMAIN jobs, f \in Files :
          (/\ At(j, f, "markFailed")
           /\ RowExists(f, jobs[j].members[f])
           /\ images[f].status # "failed"
           /\ images'[f].status = "failed")
          => jobs[j].attemptsMade = attempts]_vars

\* The callers released in the interval [t, t + windowMs).
ReleasedIn(t) ==
    {i \in DOMAIN limiter.released :
        t <= limiter.released[i] /\ limiter.released[i] < t + windowMs}

\* C22: in any interval of length windowMs the limiter releases at most
\* maxRequests callers, whatever the number of concurrent callers.
C22_AtMostMaxPerWindow ==
    \A t \in 0..MaxTime : Cardinality(ReleasedIn(t)) <= maxRequests

\* The response of a filename search is being sent.
FilenameResponse ==
    /\ budget'.searches # budget.searches
    /\ api'.search.searchType = "filename"

\* The images of the folder whose name contains the query, whatever the case.
Eligible(trimmedQuery) ==
    {f \in DOMAIN images : includes(LOWER(NameOf(f)), LOWER(trimmedQuery))}

\* C23: the rows of a filename search are the images of the folder whose name
\* contains the query, exact matches before prefix matches before substring
\* matches, names ascending within a rank, with similarity 1.0, 0.8 and 0.6.
C23_LexicalRanking ==
    [][FilenameResponse =>
         LET q == trim(api'.search.query)
             res == api'.search.results
         IN /\ {res[i].file : i \in DOMAIN res} = Eligible(q)
            /\ \A i, j \in DOMAIN res :
                  i < j => \/ rank(res[i].file, q) < rank(res[j].file, q)
                           \/ /\ rank(res[i].file, q) = rank(res[j].file, q)
                              /\ NameBefore(NameOf(res[i].file), NameOf(res[j].file))
            /\ \A i \in DOMAIN res :
                  res[i].similarity =
                     CASE rank(res[i].file, q) = 1 -> 10
                       [] rank(res[i].file, q) = 2 -> 8
                       [] OTHER -> 6]_vars

\* The query contains a dot or has fewer than 3 characters.
DotOrShort(q) == (\E i \in DOMAIN q : q[i] = ".") \/ Len(q) < 3

SearchStep == budget'.searches # budget.searches

\* The queries that differ from q only in letter case or whitespace.
VariantsOf(q) ==
    {v[2] : v \in {w \in Variants : w[1] = q}} \cup
    {v[1] : v \in {w \in Variants : w[2] = q}}

\* Normalizing q twice is normalizing it once, and the text embedded for q as
\* a caption is the text embedded for q as a query.
NormalizationAgrees(q) ==
    /\ normalizeTextForEmbedding(normalizeTextForEmbedding(q)) =
          normalizeTextForEmbedding(q)
    /\ generateCaptionEmbedding(q, <<>>) =
          generateTextEmbedding(normalizeTextForEmbedding(trim(q)), TRUE)

\* C25: normalization is idempotent and the same on the ingest and
\* query paths, and a query that differs from the one answered only in letter
\* case or whitespace gets the same search type, embedded text and results.
C25_VariantsGetSameResponse ==
    [][SearchStep =>
         /\ NormalizationAgrees(api'.search.query)
         /\ \A v \in VariantsOf(api'.search.query) :
               /\ searchResponse(v).status = api'.search.status
               /\ searchResponse(v).searchType = api'.search.searchType
               /\ searchResponse(v).submitted = api'.search.submitted
               /\ searchResponse(v).results = api'.search.results]_vars

\* The part of it that holds: normalization is idempotent and the same on the
\* ingest and query paths; a query that differs from the one answered only in
\* letter case or whitespace gets the same search type, and on the semantic
\* path the same embedded text and results.
SemanticVariantsGetSameResponse ==
    [][SearchStep =>
         /\ NormalizationAgrees(api'.search.query)
         /\ \A v \in VariantsOf(api'.search.query) :
               /\ searchResponse(v).status = api'.search.status
               /\ searchResponse(v).searchType = api'.search.searchType
               /\ searchResponse(v).submitted = api'.search.submitted
               /\ api'.search.searchType = "semantic" =>
                     searchResponse(v).results = api'.search.results]_vars

\* "My   Dog" was answered semantically, "my dog" having been embedded.
SemanticVariantAnswered ==
    /\ api.search.query = <<"M", "y", " ", " ", " ", "D", "o", "g">>
    /\ api.search.searchType = "semantic"
    /\ api.search.submitted = <<"m", "y", " ", "d", "o", "g">>
    /\ api.search.results # {}

\* The three shapes of a folder URL: /drive/folders/ID, /drive/u/N/folders/ID
\* and ?id=ID, on the host drive.google.com.
Recognized(u) ==
    /\ u.hostname = "drive.google.com"
    /\ \/ Len(u.pathname) = 3 /\ SubSeq(u.pathname, 1, 2) = <<"drive", "folders">>
       \/ /\ Len(u.pathname) = 5
          /\ SubSeq(u.pathname, 1, 2) = <<"drive", "u">>
          /\ u.pathname[4] = "folders"
       \/ u.pathname = <<"open">> /\ u.id # ""

\* An ingest request has been answered or is being served.
Requested == api.last # "none" \/ api.op # "idle"

\* C26: a folder URL of one of the three shapes on drive.google.com is parsed
\* to its folder id and its ingest proceeds; a URL with another host or
\* another path is rejected, and its ingest lists nothing and writes no row.
C26_FolderUrlParsing ==
    Requested =>
       IF Recognized(env.folderUrl)
       THEN /\ extractFolderId(env.folderUrl) = DriveFolder
            /\ isValidDriveUrl(env.folderUrl)
            /\ api.last # "InvalidUrl"
       ELSE /\ ~isValidDriveUrl(env.folderUrl)
            /\ api.last = "InvalidUrl"
            /\ api.listed = {}
            /\ ~FolderExists
            /\ images = EmptyFn

\* C27: a write of a recovery pass changes only rows that still satisfy its
\* selection: the reset of the stuck images leaves a row that a worker has
\* completed or failed since as it is, and the folder is not set back to
\* processing once a worker has marked it completed.
C27_RecoveryWritesAreGuarded ==
    [][/\ (script.op = "recover-jobs" /\ script.pc = "reset" /\ script' # script)
          => \A f \in DOMAIN images :
                images[f].status \in {"completed", "failed"}
                => images'[f].status = images[f].status
       /\ (rec.pc = "mark" /\ rec' # rec /\ FolderExists
           /\ Folder.status = "completed")
          => folders'[DriveFolder].status = "completed"]_vars

\* The changes of status that an image row may go through.
Transitions ==
    { <<"pending", "processing">>, <<"processing", "completed">>,
      <<"processing", "failed">>, <<"completed", "pending">>,
      <<"failed", "pending">>, <<"processing", "pending">> }

\* A step of the retry endpoint.
RetryRequestStep == api.op \in {"retry-image", "retry-folder"} /\ api' # api

\* C28: the status of an image row changes only from pending to processing,
\* from processing to completed, failed or pending, and from completed or
\* failed to pending; a retry does not reset a row that is processing.
C28_StatusTransitions ==
    [][\A f \in DOMAIN images \cap DOMAIN images' :
         (images'[f].id = images[f].id /\ images'[f].status # images[f].status)
         => /\ <<images[f].status, images'[f].status>> \in Transitions
            /\ RetryRequestStep => images[f].status # "processing"]_vars

\* C29: processImage, given the existing row of an image whose MIME type is
\* not supported, writes the row failed with the error "Unsupported MIME
\* type" and returns having called neither the limiter nor captionImage (and
\* its download) nor generateCaptionEmbedding.
C29_UnsupportedMimeFailsWithoutCalls ==
    [][\A j \in DOMAIN jobs, f \in Files :
          (/\ At(j, f, "work")
           /\ MimeOf(f) \notin supportedMimeTypes
           /\ RowExists(f, jobs[j].members[f])
           /\ jobs'[j].mem[f].pc # "work")
          => (/\ images'[f].status = "failed"
              /\ images'[f].error = UnsupportedMimeType
              /\ jobs'[j].mem[f].pc = "failed"
              /\ jobs'[j].mem[f].calls = {})]_vars

\* The execution of processImage for an image/heic file has ended so.
C29_Witness ==
    \E j \in DOMAIN jobs, f \in Files :
       /\ f \in DOMAIN jobs[j].mem
       /\ jobs[j].mem[f].pc = "failed"
       /\ jobs[j].mem[f].calls = {}
       /\ MimeOf(f) = "image/heic"
       /\ RowExists(f, jobs[j].members[f])
       /\ images[f].status = "failed"
       /\ images[f].error = UnsupportedMimeType

\* A sync responds in this step, and whether it has queued a folder job.
SyncEnds == api.pc = "respond" /\ api'.pc # "respond"
FolderJobEnqueued ==
    /\ Len(jobs') = Len(jobs) + 1
    /\ jobs'[Len(jobs')].queue = "folders"

\* C30: a sync that found new images sets the folder processing and enqueues
\* a folder job; otherwise, when its processed count equals its total and the
\* total is positive, it sets the folder completed; otherwise it keeps the
\* prior status and enqueues a folder job exactly when that status was failed
\* or pending.
C30_SyncEndStatusAndEnqueue ==
    [][SyncEnds =>
         IF api.new # {}
         THEN api.wrote.status = "processing" /\ FolderJobEnqueued
         ELSE IF /\ api.wrote.processedImages = api.wrote.totalImages
                 /\ api.wrote.totalImages > 0
              THEN api.wrote.status = "completed"
              ELSE /\ api.wrote.status = api.existingStatus
                   /\ FolderJobEnqueued
                        <=> api.existingStatus \in {"failed", "pending"}]_vars

\* C31: when a sync responds, the image rows of the folder are the local rows
\* it read, less those no longer listed, plus the listed files it had no row
\* for; totalImages is the number of rows and processedImages the number of
\* completed rows, whatever the image workers wrote meanwhile.
C31_SyncLeavesStoreConsistent ==
    [][SyncEnds =>
         LET L == api.existing
             D == Supported(api.listed)
         IN /\ DOMAIN images' = (L \ (L \ D)) \cup (D \ L)
            /\ folders'[DriveFolder].totalImages = Cardinality(DOMAIN images')
            /\ folders'[DriveFolder].processedImages =
                  Cardinality({f \in DOMAIN images' :
                                 images'[f].status = "completed"})]_vars

\* A pass of recoverPendingImages starts (and, when it selects nothing, ends)
\* in this step.
RecoveryPassBegins == rec.pc = "idle" /\ rec' # rec

\* C32: a recovery pass takes every folder that has a pending image and whose
\* status is pending, failed or completed: it goes on to mark the folder
\* processing and to enqueue the pending images.
C32_RecoveryTakesFoldersWithPending ==
    [][(/\ RecoveryPassBegins
        /\ FolderExists
        /\ WithStatus("pending") # {}
        /\ Folder.status \in {"pending", "failed", "completed"})
       => (/\ rec'.pc = "mark"
           /\ DOMAIN rec'.found = WithStatus("pending"))]_vars

\* The folder job j enqueues its batches in this step; they are the jobs
\* added to the queue.
FolderJobQueues(j) ==
    /\ jobs[j].queue = "folders"
    /\ jobs[j].state = "active"
    /\ jobs[j].pc = "queueBatches"
    /\ jobs'[j].pc # "queueBatches"
AddedJobs == (Len(jobs) + 1)..Len(jobs')

\* C33: a folder job that found n pending images enqueues ceil(n/5) batch
\* jobs of 1 to 5 images each, every image found is in exactly one of them
\* with its row id, and each carries the accessToken of the folder job.
C33_FolderJobPartitionsIntoBatches ==
    [][\A j \in DOMAIN jobs :
         FolderJobQueues(j) =>
           LET n == Cardinality(DOMAIN jobs[j].found)
           IN /\ Cardinality(AddedJobs) * 5 >= n
              /\ (Cardinality(AddedJobs) - 1) * 5 < n
              /\ \A b \in AddedJobs :
                    /\ jobs'[b].queue = "images"
                    /\ jobs'[b].name = "batch-caption"
                    /\ jobs'[b].state = "waiting"
                    /\ Cardinality(DOMAIN jobs'[b].members) \in 1..5
                    /\ jobs'[b].accessToken = jobs[j].accessToken
              /\ \A f \in DOMAIN jobs[j].found :
                    Cardinality({b \in AddedJobs :
                                   /\ f \in DOMAIN jobs'[b].members
                                   /\ jobs'[b].members[f] = jobs[j].found[f]}) = 1
              /\ \A b \in AddedJobs :
                    DOMAIN jobs'[b].members \subseteq DOMAIN jobs[j].found]_vars

\* A folder job with an OAuth token has enqueued three batches for eleven
\* images.
C33_Witness ==
    \E j \in DOMAIN jobs :
       /\ jobs[j].queue = "folders"
       /\ jobs[j].pc = "recount"
       /\ jobs[j].accessToken = "token"
       /\ Cardinality(DOMAIN jobs[j].found) = 11
       /\ Len(jobs) = j + 3
       /\ \A b \in (j + 1)..Len(jobs) : jobs[b].accessToken = "token"

\* The fetches of the call so far, and the entries between two positions.
FetchesOf(kind) ==
    {i \in DOMAIN download.log :
        download.log[i].op = "fetch" /\ download.log[i].kind = kind}
AllFetches == FetchesOf("primary") \cup FetchesOf("alternative")
FetchesBefore(i) == {k \in AllFetches : k < i}
DelaysBefore(i) ==
    {k \in DOMAIN download.log :
        /\ k < i
        /\ download.log[k].op = "setTimeout"
        /\ \A m \in AllFetches : m < i => m < k}

\* The fetch at position i comes after a delay of 2^n seconds plus a jitter
\* of at most a second, n being the number of fetches before it.
BackedOff(i) ==
    LET n == Cardinality(FetchesBefore(i))
    IN \E k \in DelaysBefore(i) :
          /\ download.log[k].ms >= (2 ^ n) * 1000
          /\ download.log[k].ms <= (2 ^ n) * 1000 + 1000

\* What C34 says of a call apart from the delays: at most three primary
\* attempts, an acquire on the limiter before every fetch, the return at the
\* first success, one alternative attempt after three failed primary ones,
\* and the failure only when that one failed.
DownloadShape ==
    /\ Cardinality(FetchesOf("primary")) <= 3
    /\ \A i \in AllFetches : i > 1 /\ download.log[i - 1].op = "waitIfNeeded"
    /\ \A i \in AllFetches :
          download.log[i].ok =>
             /\ i = Len(download.log)
             /\ download.pc = "done"
             /\ download.result = "buffer"
    /\ Cardinality(FetchesOf("alternative")) <= 1
    /\ \A i \in FetchesOf("alternative") :
          /\ download.log[i].url = getAuthenticatedDownloadUrl
          /\ Cardinality({k \in FetchesOf("primary") :
                             k < i /\ ~download.log[k].ok}) = 3
    /\ download.pc = "done" =>
          /\ download.result \in {"buffer", "error"}
          /\ download.result = "error" <=>
                \E i \in FetchesOf("alternative") : ~download.log[i].ok
          /\ download.result = "buffer" <=>
                \E i \in AllFetches : download.log[i].ok

C35_RowsRequestedAreClamped ==
    api.search.status = "success" =>
       api.search.maxResults = Min(Max(api.search.topK, 1), 50)

\* The number of times a statement was sent to the database.
Issued(statement) ==
    Cardinality({i \in DOMAIN dbInit.queries : dbInit.queries[i] = statement})

\* The memoization alone: each statement is sent at most once, whatever the
\* callers.
IssuedAtMostOnce ==
    /\ Issued(SelectExtension) <= 1
    /\ Issued(CreateExtension) <= 1

\* C36: for any number of sequential or concurrent callers of
\* ensurePgvectorExtension the availability check and CREATE EXTENSION are
\* sent at most once, and when the extension is not available the callers
\* receive a typed VectorBackendUnavailable error.
C36_MemoizedAndTypedError ==
    /\ IssuedAtMostOnce
    /\ \A c \in DOMAIN dbInit.callers :
          (/\ dbInit.callers[c] = "rejected"
           /\ ~env.pgvector
           /\ dbInit.error # OtherError)
             => dbInit.error.name = "VectorBackendUnavailable"

\* recoverStalledJobs runs in this step.
RecoverStalledJobsRuns == script.op = "none" /\ script'.op = "recover-jobs"

\* The active jobs that have been active for more than five minutes.
ActiveTooLong ==
    {j \in DOMAIN jobs : jobs[j].state = "active" /\ clock - jobs[j].processedOn > 5}

\* C37: recoverStalledJobs moves to failed, with the reason "Job stalled -
\* worker restart recovery", exactly the folder and image jobs that have been
\* active for more than 5 minutes, leaves every other job as it is, and
\* returns the number of jobs it moved.
C37_StalledJobsMovedToFailed ==
    [][RecoverStalledJobsRuns =>
         /\ \A j \in ActiveTooLong :
               /\ jobs'[j].state = "failed"
               /\ jobs'[j].failedReason = StalledReason
         /\ \A j \in DOMAIN jobs \ ActiveTooLong : jobs'[j] = jobs[j]
         /\ script'.recoveredCount = Cardinality(ActiveTooLong)]_vars

\* The script moved the folder job, active for more than five minutes, and
\* left the image job, active for exactly five minutes, as it was.
C37_Witness ==
    /\ script.op = "recover-jobs"
    /\ script.recoveredCount = 1
    /\ \E j, k \in DOMAIN jobs :
          /\ jobs[j].queue = "folders"
          /\ jobs[j].state = "failed"
          /\ jobs[j].failedReason = StalledReason
          /\ jobs[k].queue = "images"
          /\ jobs[k].state = "active"
          /\ clock - jobs[k].processedOn = 5

\* The ingest of a folder that had no row when the request came answers in
\* this step.
FreshIngestResponds ==
    /\ api'.op = "idle"
    /\ api' # api
    /\ \/ api.op = "idle" /\ ~FolderExists
       \/ api.op = "ingest" /\ api.fresh

\* C38: when the ingest of a folder that is not known yet answers with an
\* error, no folder row of that drive folder exists afterwards; a folder row
\* is left only together with its image rows and a folder job.
C38_NoFolderRowAfterIngestError ==
    [][FreshIngestResponds =>
         /\ api'.last # "ok" => DriveFolder \notin DOMAIN folders'
         /\ DriveFolder \in DOMAIN folders' =>
               /\ DOMAIN images' # {}
               /\ \E j \in DOMAIN jobs' : jobs'[j].queue = "folders"]_vars

\* The image jobs, waiting or active, that hold the image row with this id.
JobsHolding(id) ==
    {j \in DOMAIN jobs :
        /\ jobs[j].queue = "images"
        /\ jobs[j].state \in {"waiting", "active"}
        /\ \E f \in DOMAIN jobs[j].members : jobs[j].members[f] = id}

\* C39: at any time an image id is in at most one image job that is waiting
\* or active, whatever the recovery of pending images, the folder worker,
\* the retry endpoint and the retries of the queue enqueue.
C39_ImageInAtMostOneLiveJob ==
    \A id \in 1..nextId : Cardinality(JobsHolding(id)) <= 1

\* The image job j ends its run in this step, and a sync has deleted the row
\* of one of its members.
BatchEndsWithDeletedMember(j) ==
    /\ jobs[j].queue = "images"
    /\ jobs[j].state = "active"
    /\ jobs'[j].state # "active"
    /\ \E f \in DOMAIN jobs[j].members : ~RowExists(f, jobs[j].members[f])

\* C40: when a sync deletes an image row while a batch job that contains the
\* image is waiting or active, the batch job still completes successfully,
\* so the queue does not retry it.
C40_BatchSurvivesDeletedMember ==
    [][\A j \in DOMAIN jobs :
         BatchEndsWithDeletedMember(j) => jobs'[j].state = "completed"]_vars

====
